---- MODULE Spec2Model ----
(***************************************************************************)
(* A model of the Minecraft protocol server: the data types (VarInt,       *)
(* VarLong, Position, bool), the framed codec (ServerboundDecoder /        *)
(* ClientboundEncoder with the optional AES-128/CFB8 stream cipher) and    *)
(* the per-connection state machine (ConnectionHandler).                   *)
(*                                                                         *)
(* Six specifications share the variables:                                 *)
(*   Spec       one connection task, driven by the packets its reader      *)
(*              yields;                                                    *)
(*   SpecCodec  the codec on its own: an encoder writes to the wire, the   *)
(*              decoder reads the wire in chunks of any size;              *)
(*   SpecSwitch the codec with the ciphers enabled in mid-stream;          *)
(*   SpecData   each data type, and the cleartext frame, applied to one    *)
(*              input: written, then read back;                            *)
(*   SpecServer main's accept loop and the connection tasks it spawns;     *)
(*   SpecIo     Spec with a socket that may refuse what the task sends.    *)
(***************************************************************************)
EXTENDS Integers, Sequences, FiniteSets, TLC

VARIABLES
    \* ---- ClientboundEncoder / FramedWrite
    encrypter,      \* ClientboundEncoder.encrypter (a cipher, or NoCipher)
    dst,            \* FramedWrite's buffer, the dst of encode
    wire,           \* every byte flushed to the socket so far
    \* ---- ServerboundDecoder / FramedRead
    decrypter,      \* ServerboundDecoder.decrypter
    buffer,         \* ServerboundDecoder.buffer (decrypted bytes)
    src,            \* FramedRead's buffer, the src of decode
    readable,       \* FramedRead.is_readable
    pos,            \* how many bytes of the wire the socket has delivered
    frames,         \* the packets decode has yielded, in order
    dstatus,        \* "ok" | "error" | "panic": how the decoder has ended
    \* ---- codec harness history
    key,            \* the key both ciphers were enabled with (<<>>: cleartext)
    pkts,           \* the packets handed to encode, in order
    rawn,           \* number of bytes written to the wire without the encoder
    split,          \* whether a socket read has left bytes of the wire behind
    eaten,          \* the bytes decode has removed from the buffer it reads, in order
    switch,         \* wire bytes parsed, and delivered, when the cipher was enabled late
    yielded,        \* the last thing the reader did was to yield a packet
    \* ---- ConnectionHandler
    current_state,  \* State
    username,       \* Option<String>: <<>> or <<bytes>>
    verify_token,   \* Option<[u8; 4]>: <<>> or <<bytes>>
    pc,             \* where the task is suspended: "next" | "auth"
    status,         \* "running" | "closed" | "error" | "panic"
    inq,            \* packets the reader has decoded and not yet yielded
    \* ---- connection history
    arrived,        \* the packets that have arrived, in order
    handled,        \* the packets handle_packet was called with, in order
    sent,           \* the packets written to the socket, in order
    trace,          \* the side effects of the handlers, in order
    secret,         \* the session key of the login in progress
    \* ---- data types on their own
    dt,             \* [kind, stage, in, bytes, size, out]: a value, its encoding, what was read back
    \* ---- the client's end of the socket
    peer,           \* [open, during]: whether the client still writes, and the pc it closed at
    \* ---- main: the accept loop and the tasks it has spawned
    listener,       \* "listening" | "stopped": the accept loop
    backlog,        \* what incoming.next() will return, in order
    conns,          \* the ConnectionHandler of each spawned task, in order of accept
    rsa_key         \* RSA_KEY: <<>> until it is generated, then <<key>>

codecVars == <<encrypter, dst, wire, decrypter, buffer, src, readable, pos,
               frames, dstatus, key, pkts, rawn, split, eaten, switch, yielded>>
connVars == <<current_state, username, verify_token, pc, status, inq,
              arrived, handled, sent, trace, secret>>
serverVars == <<listener, backlog, conns, rsa_key>>
vars == <<codecVars, connVars, dt, peer, serverVars>>

\* ------------------------------------------------------------------ bounds
\* Bytes on the wire of the codec harness.
MaxWire == 5
\* Packets handed to the encoder of the codec harness.
MaxPackets == 2
\* Packets a client sends on one connection.
MaxInbound == 4
\* Packets decoded and waiting for reader.next() at one time.
MaxQueue == 2
\* Bytes of the longest packet body given to the encoder.
MaxBody == 130
\* Bytes of the longest buffer given to the VarInt readers.
MaxBuf == 6

\* ------------------------------------------------------------------- bytes
\* Bit i of a xor b, in its place.
XorBit(a, b, i) == (((a \div (2 ^ i)) + (b \div (2 ^ i))) % 2) * (2 ^ i)

\* a ^ b on u8.
Xor8(a, b) ==
    XorBit(a, b, 0) + XorBit(a, b, 1) + XorBit(a, b, 2) + XorBit(a, b, 3)
    + XorBit(a, b, 4) + XorBit(a, b, 5) + XorBit(a, b, 6) + XorBit(a, b, 7)

\* F(x) with x evaluated once, however often F uses it.
Eval(x, F(_)) == CHOOSE v \in {F(y) : y \in {x}} : TRUE

Take(s, n) == SubSeq(s, 1, n)
Drop(s, n) == SubSeq(s, n + 1, Len(s))

RECURSIVE Zeros(_)
Zeros(n) == IF n <= 0 THEN <<>> ELSE <<0>> \o Zeros(n - 1)

\* BytesMut::resize(new_len, 0)
Resize(b, n) == IF n <= Len(b) THEN Take(b, n) ELSE b \o Zeros(n - Len(b))

\* ------------------------------------------------------------------ VarInt
\* The accumulation with bit 31 of the word left out.
VarIntAccUnsigned(result, value, i) ==
    IF i < 4 THEN result + value * (2 ^ (7 * i)) ELSE (value % 8) * (2 ^ 28) + result

\* result |= (value as i32) << (7 * i), in 32-bit two's complement: the
\* shift by 28 drops the bits that leave the word, and bit 31 is the sign.
VarIntAcc(result, value, i) ==
    IF i < 4 THEN result + value * (2 ^ (7 * i))
    ELSE LET t == value % 16
         IN  IF t >= 8 THEN (t - 16) * (2 ^ 28) + result
             ELSE t * (2 ^ 28) + result

\* The loop of VarInt::careful_read_from over src.as_ref(), from byte i + 1.
RECURSIVE CarefulLoop(_, _, _)
CarefulLoop(b, i, result) ==
    IF i >= Len(b) THEN [kind |-> "OutOfBytes", value |-> 0, rest |-> b]
    ELSE IF i + 1 > 5 THEN [kind |-> "Malformed", value |-> 0, rest |-> b]
    ELSE LET byte == b[i + 1]
             r == VarIntAcc(result, byte % 128, i)
         IN  IF byte < 128
             THEN [kind |-> "Ok", value |-> r, rest |-> Drop(b, i + 1)]
             ELSE CarefulLoop(b, i + 1, r)

\* A careful read that gives up the bytes it looked at when it fails.
VarIntCarefulReadConsuming(b) ==
    LET r == CarefulLoop(b, 0, 0)
    IN  [r EXCEPT !.rest = IF r.kind = "Ok" THEN r.rest ELSE <<>>]

VarIntCarefulReadFrom(b) == CarefulLoop(b, 0, 0)

\* The loop of VarInt::read_from: every byte looked at is consumed.
RECURSIVE ReadLoop(_, _, _)
ReadLoop(b, num_read, result) ==
    IF b = <<>> THEN [kind |-> "OutOfBytes", value |-> 0, rest |-> b]
    ELSE LET byte == Head(b)
             n == num_read + 1
         IN  IF n > 5 THEN [kind |-> "Malformed", value |-> 0, rest |-> Tail(b)]
             ELSE LET r == VarIntAcc(result, byte % 128, n - 1)
                  IN  IF byte < 128
                      THEN [kind |-> "Ok", value |-> r, rest |-> Tail(b)]
                      ELSE ReadLoop(Tail(b), n, r)

VarIntReadFrom(b) == ReadLoop(b, 0, 0)

\* A write loop that stops after the first byte.
WriteLoopOneByte(value) == <<value % 128>>

\* The loop of VarInt::write_to on the u32 value.
RECURSIVE WriteLoop(_)
WriteLoop(value) ==
    LET byte == value % 128
        next == value \div 128
    IN  IF next # 0 THEN <<byte + 128>> \o WriteLoop(next) ELSE <<byte>>

\* VarInt::write_to: `self.value as u32`, then the loop.  The first shift of
\* a negative value is done here: (v + 2^32) >> 7 = (v div 128) + 2^25.
VarIntWriteTo(v) ==
    IF v >= 0 THEN WriteLoop(v)
    ELSE <<(v % 128) + 128>> \o WriteLoop((v \div 128) + 2 ^ 25)

\* 32 - i32::leading_zeros(v): 32 for a negative v.
RECURSIVE BitLen(_)
BitLen(v) == IF v = 0 THEN 0 ELSE 1 + BitLen(v \div 2)

\* A size computed from the magnitude of the value.
VarIntSizeOfMagnitude(v) ==
    LET ceil == (BitLen(IF v < 0 THEN -(v + 1) ELSE v) + 6) \div 7
    IN  IF ceil > 1 THEN ceil ELSE 1

VarIntSize(v) ==
    LET num_bits == IF v < 0 THEN 32 ELSE BitLen(v)
        ceil == (num_bits + 6) \div 7
    IN  IF ceil > 1 THEN ceil ELSE 1

\* ------------------------------------------------------------ AES-128/CFB8
\* A cipher is [on, key, ks, reg]: ks stands for the expanded key and reg is the
\* 16-byte shift register of CFB8.
NoCipher == [on |-> FALSE, key |-> <<>>, ks |-> 0, reg |-> <<>>]

\* A weighted sum of 16 bytes, modulo 256.
Mix16(b) ==
    (b[1] + 3 * b[2] + 5 * b[3] + 7 * b[4] + 11 * b[5] + 13 * b[6] + 17 * b[7]
     + 19 * b[8] + 23 * b[9] + 29 * b[10] + 31 * b[11] + 37 * b[12] + 41 * b[13]
     + 43 * b[14] + 47 * b[15] + 53 * b[16]) % 256

\* The first byte of the AES encryption of the shift register under the
\* expanded key.  The block cipher is a fixed mixing function here: what the
\* codec relies on is that it is a function of the key and of the register.
AesFirstByte(ks, reg) == (ks + Mix16(reg) + 99) % 256

\* Crypter::new(Cipher::aes_128_cfb8(), mode, key, Some(key)): the shift
\* register starts as the IV, which is the key.
CrypterNew(k) == [on |-> TRUE, key |-> k, ks |-> (2 * Mix16(k) + 1) % 256, reg |-> k]

\* The loop of Crypter::update in Mode::Encrypt, byte by byte: each
\* ciphertext byte is fed back into the shift register.  st is
\* <<cipher, shift register, input left, output so far>>.
KeystreamXor(st) == Xor8(Head(st[3]), AesFirstByte(st[1].ks, st[2]))
EncryptStep(st) ==
    <<st[1], Tail(st[2]) \o <<KeystreamXor(st)>>, Tail(st[3]), st[4] \o <<KeystreamXor(st)>>>>
RECURSIVE EncryptLoop(_)
EncryptLoop(st) ==
    IF st[3] = <<>> THEN [cipher |-> [st[1] EXCEPT !.reg = st[2]], out |-> st[4]]
    ELSE Eval(EncryptStep(st), EncryptLoop)

CfbEncrypt(c, input) == Eval(<<c, c.reg, input, <<>>>>, EncryptLoop)

\* The loop of Crypter::update in Mode::Decrypt: the ciphertext byte read is
\* fed back into the shift register.
DecryptStep(st) ==
    <<st[1], Tail(st[2]) \o <<Head(st[3])>>, Tail(st[3]), st[4] \o <<KeystreamXor(st)>>>>
RECURSIVE DecryptLoop(_)
DecryptLoop(st) ==
    IF st[3] = <<>> THEN [cipher |-> [st[1] EXCEPT !.reg = st[2]], out |-> st[4]]
    ELSE Eval(DecryptStep(st), DecryptLoop)

CfbDecrypt(c, input) == Eval(<<c, c.reg, input, <<>>>>, DecryptLoop)

\* An enable_encryption that leaves the encoder without a cipher.
EncoderEnableNothing(k) == NoCipher

\* An enable_encryption that leaves the decoder without a cipher.
DecoderEnableNothing(k) == NoCipher

\* ServerboundDecoder::enable_encryption / ClientboundEncoder::enable_encryption
DecoderEnableEncryption(k) == CrypterNew(k)
EncoderEnableEncryption(k) == CrypterNew(k)

\* ------------------------------------------------------------------- codec
NoPacket == [id |-> 0, data |-> <<>>]

\* An encode that writes the packet id before the length.
ClientboundEncodeIdFirst(enc, item, d) ==
    [encrypter |-> enc,
     dst |-> d \o VarIntWriteTo(item.id)
               \o VarIntWriteTo(VarIntSize(item.id) + Len(item.data)) \o item.data]

\* ClientboundEncoder::encode(item, dst).  The try_into of the length fails
\* only above 2^31 - 1 bytes, which no packet of the model reaches.
ClientboundEncode(enc, item, d) ==
    LET packet_id == item.id
        data == item.data
        buffer_length == VarIntSize(packet_id) + Len(data)
        length == VarIntSize(buffer_length) + buffer_length
        temp == VarIntWriteTo(buffer_length) \o VarIntWriteTo(packet_id) \o data
    IN  IF enc.on
        THEN Eval(CfbEncrypt(enc, temp),
                  LAMBDA r : [encrypter |-> r.cipher,
                              dst |-> r.out \o Drop(Resize(d, length), Len(r.out))])
        ELSE [encrypter |-> enc, dst |-> d \o temp]

\* The second half of decode: the length prefix has been read from read_from.
\* on: whether read_from is the decoder's own buffer (encryption enabled).
DecodeFrame(on, cipher, buf, s, read_from, len) ==
    LET Out(kind, rf, packet) ==
            [kind |-> kind, decrypter |-> cipher,
             buffer |-> IF on THEN rf ELSE buf,
             src |-> IF on THEN s ELSE rf,
             eaten |-> Take(read_from, Len(read_from) - Len(rf)),
             packet |-> packet]
    IN  CASE len.kind = "OutOfBytes" -> Out("None", read_from, NoPacket)
          [] len.kind = "Malformed" -> Out("Err", read_from, NoPacket)
          [] OTHER ->
               IF len.value >= 0 /\ len.value <= Len(len.rest)
               THEN Eval(VarIntReadFrom(Take(len.rest, len.value)),
                         LAMBDA packet_id :
                            IF packet_id.kind = "Ok"
                            THEN Out("Some", Drop(len.rest, len.value),
                                     [id |-> packet_id.value, data |-> packet_id.rest])
                            ELSE Out("Err", Drop(len.rest, len.value), NoPacket))
               ELSE IF len.value < 0
                    THEN Out("Panic", len.rest, NoPacket)
                    ELSE Out("None", len.rest, NoPacket)

\* The first lines of decode with encryption enabled, but with the decrypted
\* bytes put in place of the buffer, not after what it holds.
DecryptNewDataOverBuffer(dec, buf, s) ==
    Eval(CfbDecrypt(dec, s), LAMBDA r : [cipher |-> r.cipher, buffer |-> r.out])

\* The first lines of decode with encryption enabled: new_data = src.split()
\* takes all of src, and its decryption goes after what the buffer holds.
DecryptNewData(dec, buf, s) ==
    Eval(CfbDecrypt(dec, s), LAMBDA r : [cipher |-> r.cipher, buffer |-> buf \o r.out])

\* ServerboundDecoder::decode(src): kind is "Some" (a packet), "None" (wait
\* for more bytes), "Err", or "Panic" (src.reserve of a negative length cast
\* to usize overflows the capacity).  With encryption enabled all of src is
\* decrypted onto the end of the decoder's buffer, which is then read from.
ServerboundDecode(dec, buf, s) ==
    IF dec.on
    THEN Eval(DecryptNewData(dec, buf, s),
              LAMBDA r : Eval(VarIntCarefulReadFrom(r.buffer),
                  LAMBDA len : DecodeFrame(TRUE, r.cipher, buf, <<>>, r.buffer, len)))
    ELSE Eval(VarIntCarefulReadFrom(s),
              LAMBDA len : DecodeFrame(FALSE, dec, buf, s, s, len))

\* ----------------------------------------------------- the codec on its own
Key1 == <<1, 2, 3, 4, 5, 6, 7, 8, 9, 10, 11, 12, 13, 14, 15, 16>>
Key2 == <<200, 7, 7, 7, 7, 7, 7, 7, 7, 7, 7, 7, 7, 7, 7, 255>>

\* The bytes a peer may put on the wire without the encoder.
RawBytes == {0, 1, 2, 128}
\* The packets handed to the encoder.
CodecPackets == {[id |-> i, data |-> d] : i \in {0, 1, 36}, d \in {<<>>, <<7>>, <<0, 1>>}}

CipherFor(k, mk(_)) == IF k = <<>> THEN NoCipher ELSE mk(k)

InitConn ==
    /\ current_state = "Handshaking"
    /\ username = <<>>
    /\ verify_token = <<>>
    /\ pc = "next"
    /\ status = "running"
    /\ inq = <<>>
    /\ arrived = <<>>
    /\ handled = <<>>
    /\ sent = <<>>
    /\ trace = <<>>
    /\ secret = <<>>

\* Nothing parsed yet, no cipher enabled late, no data type under test.
DataIdle ==
    [kind |-> "idle", stage |-> "idle", in |-> <<>>, bytes |-> <<>>, size |-> 0, out |-> <<>>]
InitHistory ==
    /\ eaten = <<>>
    /\ switch = [parsed |-> 0, delivered |-> 0]
    /\ yielded = FALSE

\* The client has not closed its end; no connection has been accepted and
\* RSA_KEY has not been used.
PeerOpen == [open |-> TRUE, during |-> "next"]
\* TcpListener::bind succeeded; log is what incoming.next() has yielded so far.
Listening == [state |-> "listening", log |-> <<>>]
InitServerIdle ==
    /\ peer = PeerOpen
    /\ listener = Listening
    /\ backlog = <<>>
    /\ conns = <<>>
    /\ rsa_key = <<>>

InitCodec ==
    /\ key \in {<<>>, Key1, Key2}
    /\ encrypter = CipherFor(key, EncoderEnableEncryption)
    /\ decrypter = CipherFor(key, DecoderEnableEncryption)
    /\ dst = <<>>
    /\ wire = <<>>
    /\ buffer = <<>>
    /\ src = <<>>
    /\ readable = FALSE
    /\ pos = 0
    /\ frames = <<>>
    /\ dstatus = "ok"
    /\ pkts = <<>>
    /\ rawn = 0
    /\ split = FALSE
    /\ InitHistory
    /\ InitServerIdle
    /\ InitConn
    /\ dt = DataIdle

\* FramedWrite: send(item) is encode into the buffer, then flush to the socket.
\* The wire carries either the encoder's output or a peer's own bytes.
CodecSend(item) ==
    /\ Len(pkts) < MaxPackets
    /\ rawn = 0
    /\ \E e \in {ClientboundEncode(encrypter, item, dst)} :
           /\ Len(wire) + Len(e.dst) <= MaxWire
           /\ encrypter' = e.encrypter
           /\ wire' = wire \o e.dst
           /\ dst' = <<>>
    /\ pkts' = Append(pkts, item)
    /\ UNCHANGED <<decrypter, buffer, src, readable, pos, frames, dstatus, key, rawn,
                   split, eaten, switch, yielded>>
    /\ UNCHANGED <<connVars, dt, peer, serverVars>>

\* A peer writes one byte of its own making.
RawWrite(b) ==
    /\ Len(wire) < MaxWire
    /\ pkts = <<>>
    /\ wire' = Append(wire, b)
    /\ rawn' = rawn + 1
    /\ UNCHANGED <<encrypter, dst, decrypter, buffer, src, readable, pos, frames,
                   dstatus, key, pkts, split, eaten, switch, yielded>>
    /\ UNCHANGED <<connVars, dt, peer, serverVars>>

\* FramedRead: with nothing decodable left, read n bytes from the socket.
SocketRead(n) ==
    /\ dstatus = "ok"
    /\ ~readable
    /\ pos + n <= Len(wire)
    /\ src' = src \o SubSeq(wire, pos + 1, pos + n)
    /\ pos' = pos + n
    /\ readable' = TRUE
    /\ split' = (split \/ pos + n < Len(wire))
    /\ yielded' = FALSE
    /\ UNCHANGED <<encrypter, dst, wire, decrypter, buffer, frames, dstatus, key,
                   pkts, rawn, eaten, switch>>
    /\ UNCHANGED <<connVars, dt, peer, serverVars>>

\* FramedRead: one call of decode on the buffer.
FramedDecode ==
    /\ dstatus = "ok"
    /\ readable
    /\ \E r \in {ServerboundDecode(decrypter, buffer, src)} :
           /\ decrypter' = r.decrypter
           /\ buffer' = r.buffer
           /\ src' = r.src
           /\ frames' = IF r.kind = "Some" THEN Append(frames, r.packet) ELSE frames
           /\ readable' = (r.kind = "Some")
           /\ yielded' = (r.kind = "Some")
           /\ eaten' = eaten \o r.eaten
           /\ dstatus' = CASE r.kind = "Err" -> "error"
                           [] r.kind = "Panic" -> "panic"
                           [] OTHER -> "ok"
    /\ UNCHANGED <<encrypter, dst, wire, pos, key, pkts, rawn, split, switch>>
    /\ UNCHANGED <<connVars, dt, peer, serverVars>>

NextCodec ==
    \/ \E item \in CodecPackets : CodecSend(item)
    \/ \E b \in RawBytes : RawWrite(b)
    \/ \E n \in 1..MaxWire : SocketRead(n)
    \/ FramedDecode

SpecCodec == InitCodec /\ [][NextCodec]_vars

\* ------------------------------------------- the cipher enabled mid-stream
\* What a client that has the session key Key1 writes for two empty packets
\* with id 0.
EncryptedFrames == CfbEncrypt(CrypterNew(Key1), <<1, 0, 1, 0>>).out
SwitchBytes == {0, 1} \cup {EncryptedFrames[i] : i \in 1..Len(EncryptedFrames)}

\* handle_login_encryption_response enabling both ciphers: it runs on a packet
\* the reader has just yielded, with whatever the transport has buffered
\* behind that packet still in src.
CodecEnableEncryption(k) ==
    /\ key = <<>>
    /\ yielded
    /\ dstatus = "ok"
    /\ key' = k
    /\ decrypter' = DecoderEnableEncryption(k)
    /\ encrypter' = EncoderEnableEncryption(k)
    /\ switch' = [parsed |-> pos - Len(src), delivered |-> pos]
    /\ UNCHANGED <<dst, wire, buffer, src, readable, pos, frames, dstatus, pkts, rawn,
                   split, eaten, yielded>>
    /\ UNCHANGED <<connVars, dt, peer, serverVars>>

InitSwitch == InitCodec /\ key = <<>>

NextSwitch ==
    \/ \E item \in CodecPackets : CodecSend(item)
    \/ \E b \in SwitchBytes : RawWrite(b)
    \/ \E n \in 1..MaxWire : SocketRead(n)
    \/ FramedDecode
    \/ CodecEnableEncryption(Key1)

SpecSwitch == InitSwitch /\ [][NextSwitch]_vars

\* The wire bytes the decoder has taken from src since the cipher was enabled,
\* decrypted as one stream by a cipher fresh from the key.
DecryptedSinceSwitch ==
    CfbDecrypt(CrypterNew(key), SubSeq(wire, switch.parsed + 1, pos - Len(src)))

\* C11: once the cipher is enabled, what the decoder has parsed since, followed
\* by what its buffer still holds, is the decryption, as one stream and in
\* arrival order, of every wire byte it has taken since the last byte parsed in
\* cleartext: the bytes that were waiting in src when the cipher was enabled
\* are in it, nothing is parsed undecrypted or decrypted twice, and decrypted
\* bytes not yet parsed stay in the buffer.
C11_EveryByteThroughCipherOnce ==
    (decrypter.on /\ dstatus = "ok") =>
        /\ Take(eaten, switch.parsed) = Take(wire, switch.parsed)
        /\ Drop(eaten, switch.parsed) \o buffer = DecryptedSinceSwitch.out
        /\ decrypter = DecryptedSinceSwitch.cipher

C11_Witness ==
    /\ decrypter.on
    /\ dstatus = "ok"
    /\ switch.parsed = 2
    /\ switch.delivered = 5
    /\ Len(frames) = 2
    /\ Len(eaten) = 4
    /\ Len(buffer) = 1
    /\ src = <<>>

\* decode called again and again on a buffer that holds the whole stream.
RECURSIVE DecodeAll(_, _, _, _)
DecodeAll(dec, buf, s, acc) ==
    Eval(ServerboundDecode(dec, buf, s),
         LAMBDA r :
            IF r.kind = "Some"
            THEN DecodeAll(r.decrypter, r.buffer, r.src, Append(acc, r.packet))
            ELSE [frames |-> acc,
                  dstatus |-> CASE r.kind = "Err" -> "error"
                                [] r.kind = "Panic" -> "panic"
                                [] OTHER -> "ok"])

WholeDecode(k, w) == DecodeAll(CipherFor(k, DecoderEnableEncryption), <<>>, w, <<>>)

\* The decoder has been given every byte of the wire and has nothing left to do.
DecoderIdle == pos = Len(wire) /\ (~readable \/ dstatus # "ok")

\* C1: whatever the chunks the wire was read in, the decoder ends with the
\* packets (and the outcome) that decoding the whole stream in one buffer
\* gives, with and without encryption.
C1_ChunkingIrrelevant ==
    DecoderIdle =>
        [frames |-> frames, dstatus |-> dstatus] = WholeDecode(key, wire)

\* C2: with both ciphers enabled with the same key, the packets encoded one
\* after another are the packets the decoder has yielded, in order, once it
\* has been given the whole stream.
C2_CipherRoundTrip ==
    (key # <<>> /\ rawn = 0 /\ DecoderIdle) => (frames = pkts /\ dstatus = "ok")

\* A call of decode that returned Ok(None): FramedRead stops calling decode
\* until the socket has given more bytes.
NeedMore == dstatus = "ok" /\ readable /\ ~readable' /\ dstatus' = "ok"
\* What that call of decode parsed, and the length prefix it found there.
ReadFrom == IF decrypter.on THEN DecryptNewData(decrypter, buffer, src).buffer ELSE src
PendingPrefix == VarIntCarefulReadFrom(ReadFrom)

\* C30: a decode that returns Ok(None) has removed no byte of the pending
\* frame: the length prefix and the partial body are still at the front of the
\* buffer the next call parses.
C30_NeedMoreConsumesNothing ==
    [][NeedMore =>
        /\ eaten' = eaten
        /\ (IF decrypter.on THEN buffer' ELSE src') = ReadFrom]_vars

\* C30, as the code has it: Ok(None) leaves everything in place only when the
\* length prefix itself is incomplete; when the prefix is complete and the
\* body is not, careful_read_from has removed the prefix and the buffer the
\* next call parses starts with the partial body.
C30_NeedMoreKeepsOnlyIncompletePrefix ==
    [][NeedMore =>
        IF PendingPrefix.kind = "OutOfBytes"
        THEN /\ eaten' = eaten
             /\ (IF decrypter.on THEN buffer' ELSE src') = ReadFrom
        ELSE /\ PendingPrefix.kind = "Ok"
             /\ Len(PendingPrefix.rest) < Len(ReadFrom)
             /\ eaten' = eaten \o Take(ReadFrom, Len(ReadFrom) - Len(PendingPrefix.rest))
             /\ (IF decrypter.on THEN buffer' ELSE src') = PendingPrefix.rest]_vars

\* C30 witness: of the Status Request frame 01 00 the socket gave the first
\* byte; decode returned Ok(None) and the length prefix is gone from src.
C30_Witness ==
    /\ key = <<>>
    /\ wire = <<1, 0>>
    /\ pos = 1
    /\ ~readable
    /\ dstatus = "ok"
    /\ frames = <<>>
    /\ eaten = <<1>>
    /\ src = <<>>

\* The case in which nothing is removed: the first byte of a two-byte length
\* prefix is all there is.
IncompletePrefixKept ==
    /\ key = <<>>
    /\ wire = <<128>>
    /\ pos = 1
    /\ ~readable
    /\ dstatus = "ok"
    /\ eaten = <<>>
    /\ src = <<128>>

\* What does hold of the cipher: the round trip of the stream decoded from one
\* buffer, and of the running decoder as long as every socket read took all
\* that was on the wire (whole frames).
RoundTripWholeReads ==
    (key # <<>> /\ rawn = 0) =>
        /\ WholeDecode(key, wire) = [frames |-> pkts, dstatus |-> "ok"]
        /\ (DecoderIdle /\ ~split) => (frames = pkts /\ dstatus = "ok")

\* -------------------------------------------------------------- data types
\* Every read returns [kind, value, rest] with kind "Ok", "OutOfBytes",
\* "Malformed" or "Panic".
ReadResult(kind, value, rest) == [kind |-> kind, value |-> value, rest |-> rest]

\* <UnsignedShort as DataType>::read_from
UnsignedShortReadFrom(b) ==
    IF Len(b) >= 2 THEN ReadResult("Ok", b[1] * 256 + b[2], Drop(b, 2))
    ELSE ReadResult("OutOfBytes", 0, b)

\* <UnsignedByte as DataType>::read_from
UnsignedByteReadFrom(b) ==
    IF Len(b) >= 1 THEN ReadResult("Ok", b[1], Drop(b, 1))
    ELSE ReadResult("OutOfBytes", 0, b)

\* An i64 is kept as its four 16-bit limbs, most significant first.
\* <Long as DataType>::read_from: the guard asks for 2 bytes, and get_i64
\* panics when fewer than 8 remain.
LongReadFrom(b) ==
    IF Len(b) >= 2
    THEN IF Len(b) >= 8
         THEN ReadResult("Ok",
                         <<b[1] * 256 + b[2], b[3] * 256 + b[4],
                           b[5] * 256 + b[6], b[7] * 256 + b[8]>>,
                         Drop(b, 8))
         ELSE ReadResult("Panic", <<>>, b)
    ELSE ReadResult("OutOfBytes", <<>>, b)

\* <Long as DataType>::write_to: put_i64, big-endian.
LongWriteTo(v) ==
    <<v[1] \div 256, v[1] % 256, v[2] \div 256, v[2] % 256,
      v[3] \div 256, v[3] % 256, v[4] \div 256, v[4] % 256>>

LongZero == <<0, 0, 0, 0>>

\* <Int as DataType>::write_to: put_i32, big-endian two's complement.
IntWriteTo(v) ==
    <<(v \div (2 ^ 24)) % 256, (v \div (2 ^ 16)) % 256, (v \div 256) % 256, v % 256>>

\* <bool as DataType>::write_to
BoolWriteTo(v) == IF v THEN <<0>> ELSE <<1>>

\* <UnsignedByte as DataType>::write_to
UnsignedByteWriteTo(v) == <<v>>

\* String::from_utf8: the well-formed byte sequences of UTF-8.  SeqLen is the
\* length of the sequence a byte leads (0: not a lead byte), and a sequence's
\* second byte has the range its lead byte allows.
IsCont(x) == x \in 128..191
SeqLen(x) ==
    IF x < 128 THEN 1
    ELSE IF x \in 194..223 THEN 2
    ELSE IF x \in 224..239 THEN 3
    ELSE IF x \in 240..244 THEN 4
    ELSE 0
SecondOk(lead, x) ==
    CASE lead = 224 -> x \in 160..191
      [] lead = 237 -> x \in 128..159
      [] lead = 240 -> x \in 144..191
      [] lead = 244 -> x \in 128..143
      [] OTHER -> IsCont(x)
IsUtf8(b) ==
    \A i \in 1..Len(b) :
        IF IsCont(b[i])
        THEN \E j \in 1..3 :
                /\ i - j >= 1
                /\ SeqLen(b[i - j]) > j
                /\ \A k \in 1..(j - 1) : IsCont(b[i - k])
        ELSE /\ SeqLen(b[i]) > 0
             /\ i + SeqLen(b[i]) - 1 <= Len(b)
             /\ \A k \in 1..(SeqLen(b[i]) - 1) : IsCont(b[i + k])
             /\ SeqLen(b[i]) > 1 => SecondOk(b[i], b[i + 1])

\* A read that takes any length the prefix gives, whatever the size.
StringReadFromUnsized(b, size) ==
    Eval(VarIntReadFrom(b),
         LAMBDA length :
            IF length.kind # "Ok" THEN ReadResult(length.kind, <<>>, length.rest)
            ELSE IF length.value < 0 THEN ReadResult("Malformed", <<>>, length.rest)
            ELSE IF Len(length.rest) >= length.value
                 THEN ReadResult("Ok", Take(length.rest, length.value),
                                 Drop(length.rest, length.value))
                 ELSE ReadResult("OutOfBytes", <<>>, length.rest))

\* <String as SizedDataType>::read_from_sized.  A string is its UTF-8 bytes.
StringReadFromSized(b, size) ==
    Eval(VarIntReadFrom(b),
         LAMBDA length :
            IF length.kind # "Ok" THEN ReadResult(length.kind, <<>>, length.rest)
            ELSE IF length.value < 0 THEN ReadResult("Malformed", <<>>, length.rest)
            ELSE IF length.value > size THEN ReadResult("Malformed", <<>>, length.rest)
            ELSE IF Len(length.rest) >= length.value
                 THEN IF IsUtf8(Take(length.rest, length.value))
                      THEN ReadResult("Ok", Take(length.rest, length.value),
                                      Drop(length.rest, length.value))
                      ELSE ReadResult("Malformed", <<>>, Drop(length.rest, length.value))
                 ELSE ReadResult("OutOfBytes", <<>>, length.rest))

\* n bytes of ASCII text.
Ascii(n) == [i \in 1..n |-> 97 + (i % 26)]

\* <String as SizedDataType>::write_to
StringWriteTo(str) == VarIntWriteTo(Len(str)) \o str

\* <Vec<u8> as SizedDataType>::read_from_sized: a negative count cast to usize
\* is larger than any size.
ByteArrayReadFromSized(b, size) ==
    Eval(VarIntReadFrom(b),
         LAMBDA n :
            IF n.kind # "Ok" THEN ReadResult(n.kind, <<>>, n.rest)
            ELSE IF n.value < 0 \/ n.value > size THEN ReadResult("Malformed", <<>>, n.rest)
            ELSE IF Len(n.rest) >= n.value
                 THEN ReadResult("Ok", Take(n.rest, n.value), Drop(n.rest, n.value))
                 ELSE ReadResult("OutOfBytes", <<>>, <<>>))

\* <Vec<u8> as SizedDataType>::write_to
ByteArrayWriteTo(v) == VarIntWriteTo(Len(v)) \o v

\* <Uuid as DataType>::write_to: put_u128 of as_u128 is the 16 bytes in order.
UuidWriteTo(u) == u

\* ----------------------------------------------------------------- packets
ParseOk(v) == [kind |-> "Ok", value |-> v]
ParseErr == [kind |-> "Err", value |-> <<>>]
ParsePanic == [kind |-> "Panic", value |-> <<>>]

\* A match on next_state whose last arm takes every other value for Status.
NextStateLenient(v) ==
    CASE v = 2 -> "Login"
      [] OTHER -> "Status"

\* The match on next_state in Handshake::from_packet.
NextStateOf(v) ==
    CASE v = 1 -> "Status"
      [] v = 2 -> "Login"
      [] OTHER -> "Unknown"

\* Handshake::from_packet: the fields are read in order, each with `?`.
HandshakeFromPacket(data) ==
    Eval(VarIntReadFrom(data), LAMBDA protocol_version :
        IF protocol_version.kind # "Ok" THEN ParseErr
        ELSE Eval(StringReadFromSized(protocol_version.rest, 255), LAMBDA server_address :
            IF server_address.kind # "Ok" THEN ParseErr
            ELSE Eval(UnsignedShortReadFrom(server_address.rest), LAMBDA server_port :
                IF server_port.kind # "Ok" THEN ParseErr
                ELSE Eval(VarIntReadFrom(server_port.rest), LAMBDA next_state :
                    IF next_state.kind # "Ok" THEN ParseErr
                    ELSE IF NextStateOf(next_state.value) = "Unknown" THEN ParseErr
                    ELSE ParseOk(NextStateOf(next_state.value))))))

\* A Request parser that does not look at the body.
RequestFromPacketAny(data) == ParseOk(<<>>)

\* status::Request::from_packet
RequestFromPacket(data) == IF Len(data) = 0 THEN ParseOk(<<>>) ELSE ParseErr

\* status::Ping::from_packet
PingFromPacket(data) ==
    Eval(LongReadFrom(data), LAMBDA payload :
        CASE payload.kind = "Ok" -> ParseOk(payload.value)
          [] payload.kind = "Panic" -> ParsePanic
          [] OTHER -> ParseErr)

\* A Pong that carries zero, whatever the Ping carried.
PongZero(ping) == LongZero

\* status::Pong::new, the payload of the Pong for a Ping.
PongNew(ping) == ping

\* status::Pong::into_packet
PongIntoPacket(pong) == [id |-> 1, data |-> LongWriteTo(pong)]

\* The JSON document of status::Response::new(1337, 69, "Hello World", None):
\* a short stand-in for its text.
StatusJson == <<123, 125>>

\* status::Response::into_packet
ResponseIntoPacket(response) == [id |-> 0, data |-> StringWriteTo(response)]

\* login::Start::from_packet
StartFromPacket(data) ==
    Eval(StringReadFromSized(data, 16), LAMBDA name :
        IF name.kind = "Ok" THEN ParseOk(name.value) ELSE ParseErr)

\* An EncryptionRequest that carries a token of its own, not the one given.
EncryptionRequestOwnToken(public_key, token) ==
    [id |-> 1,
     data |-> StringWriteTo(<<>>) \o ByteArrayWriteTo(public_key) \o ByteArrayWriteTo(Zeros(4))]

\* login::EncryptionRequest::new + into_packet: server_id is always empty.
EncryptionRequestIntoPacket(public_key, token) ==
    [id |-> 1,
     data |-> StringWriteTo(<<>>) \o ByteArrayWriteTo(public_key) \o ByteArrayWriteTo(token)]

\* login::EncryptionResponse::from_packet
EncryptionResponseFromPacket(data) ==
    Eval(ByteArrayReadFromSized(data, 128), LAMBDA shared_secret :
        IF shared_secret.kind # "Ok" THEN ParseErr
        ELSE Eval(ByteArrayReadFromSized(shared_secret.rest, 128), LAMBDA token :
            IF token.kind # "Ok" THEN ParseErr
            ELSE ParseOk([shared_secret |-> shared_secret.value,
                          verify_token |-> token.value])))

\* A LoginSuccess with the username before the UUID.
LoginSuccessNameFirst(uuid, name) ==
    [id |-> 2, data |-> StringWriteTo(name) \o UuidWriteTo(uuid)]

\* login::Success::new + into_packet
LoginSuccessIntoPacket(uuid, name) ==
    [id |-> 2, data |-> UuidWriteTo(uuid) \o StringWriteTo(name)]

\* play::JoinGame::new(0, 0, 0, 0, "flat", 4, false, true) + into_packet
\* (max_players is 0; "flat" is 102 108 97 116).
JoinGameIntoPacket ==
    [id |-> 38,
     data |-> IntWriteTo(0) \o UnsignedByteWriteTo(0) \o IntWriteTo(0)
              \o LongWriteTo(LongZero) \o UnsignedByteWriteTo(0)
              \o StringWriteTo(<<102, 108, 97, 116>>) \o VarIntWriteTo(4)
              \o BoolWriteTo(FALSE) \o BoolWriteTo(TRUE)]

\* <Byte as DataType>::write_to: put_i8
ByteWriteTo(v) == <<v % 256>>

\* <Identifier as DataType>::write_to
IdentifierWriteTo(identifier) == StringWriteTo(identifier)

\* <Vec<Identifier> as SizedDataType>::write_to
RECURSIVE IdentifiersWriteTo(_)
IdentifiersWriteTo(v) ==
    IF v = <<>> THEN <<>> ELSE IdentifierWriteTo(Head(v)) \o IdentifiersWriteTo(Tail(v))
ArrayWriteTo(v) == VarIntWriteTo(Len(v)) \o IdentifiersWriteTo(v)

\* The JoinGame of #[derive(IntoPacket)] with #[packet_id = 0x24]: the derive
\* writes the fields in the order they are declared.
DerivedJoinGameIntoPacket(j) ==
    [id |-> 36,
     data |-> IntWriteTo(j.entity_id) \o BoolWriteTo(j.is_hardcore)
              \o UnsignedByteWriteTo(j.gamemode) \o ByteWriteTo(j.previous_gamemode)
              \o ArrayWriteTo(j.world_names) \o IdentifierWriteTo(j.dimension_codec)
              \o LongWriteTo(j.hashed_seed) \o UnsignedByteWriteTo(j.max_players)
              \o StringWriteTo(j.level_type) \o VarIntWriteTo(j.view_distance)
              \o BoolWriteTo(j.reduced_debug_info) \o BoolWriteTo(j.enable_respawn_screen)]

\* --------------------------------------------------------------------- RSA
\* The server's key pair is one fixed key.  A ciphertext under it is a
\* padding marker followed by the shifted plaintext; anything else does not
\* decrypt.
RsaPad == 66

\* What a client computes with the public key.
RsaPublicEncrypt(plain) == <<RsaPad>> \o [i \in 1..Len(plain) |-> (plain[i] + 1) % 256]

\* RSA_KEY.private_decrypt(from, to, Padding::PKCS1): `to` is 128 zero bytes,
\* the plaintext is written at its start and its length is returned.
RsaPrivateDecrypt(from) ==
    IF from # <<>> /\ from[1] = RsaPad
    THEN [ok |-> TRUE, num_bytes |-> Len(from) - 1,
          to |-> [i \in 1..(Len(from) - 1) |-> (from[i + 1] + 255) % 256] \o Zeros(16)]
    ELSE [ok |-> FALSE, num_bytes |-> 0, to |-> Zeros(16)]

\* RSA_KEY.public_key_to_der(): a short stand-in.
PublicKeyDer == <<48, 129, 159>>

\* -------------------------------------------------------------- connection
\* The frames a client sends.
HandshakeBody(next_state) == <<194, 4, 1, 97, 99, 221, next_state>>
Token1 == <<10, 20, 30, 40>>
Token2 == <<10, 20, 30, 41>>
\* rand::random() for the verify token.
Tokens == {Token1, Token2}
ShortSecret == <<1, 2, 3, 4, 5, 6, 7, 8>>
\* A secret of 18 bytes: its first 16 are Key2.
LongSecret == Key2 \o <<9, 9>>
ClientSecrets == {Key1, ShortSecret, LongSecret}
ShortToken == <<10, 20, 30>>
EncryptionResponseBody(shared_secret, token) ==
    ByteArrayWriteTo(RsaPublicEncrypt(shared_secret)) \o ByteArrayWriteTo(RsaPublicEncrypt(token))
\* Bodies that end early or announce too much: a Handshake without its port
\* and next_state, a Handshake whose server_address is announced as 256 bytes,
\* a Login Start whose username is announced (and sent) as 17 bytes.
MissingPort == <<194, 4, 1, 97>>
LongAddress == <<194, 4, 128, 2, 97, 99, 221, 1>>
LongName == <<17>> \o Ascii(17)
InboundPackets ==
    {[id |-> 0, data |-> HandshakeBody(ns)] : ns \in {0, 1, 2, 3}}
    \cup {[id |-> 0, data |-> <<>>],
          [id |-> 1, data |-> <<0, 0, 0, 0, 0, 0, 1, 44>>],
          [id |-> 1, data |-> <<255, 1, 2, 3, 4, 5, 6, 128>>],
          [id |-> 1, data |-> <<0, 0, 7>>],
          [id |-> 0, data |-> <<2, 104, 105>>],
          [id |-> 1, data |-> EncryptionResponseBody(Key1, Token1)],
          [id |-> 1, data |-> EncryptionResponseBody(LongSecret, Token1)],
          [id |-> 1, data |-> EncryptionResponseBody(ShortSecret, Token1)],
          [id |-> 1, data |-> EncryptionResponseBody(Key1, ShortToken)],
          [id |-> 2, data |-> <<>>],
          [id |-> 0, data |-> MissingPort],
          [id |-> 1, data |-> <<7>>],
          [id |-> 0, data |-> LongAddress],
          [id |-> 0, data |-> LongName]}

Uuid1 == <<17, 34, 51, 68, 85, 102, 119, 136, 153, 170, 187, 204, 221, 238, 255, 1>>
\* ------------------------------------------------------- api::authenticate
\* The value of a hexadecimal digit, -1 for any other character.
HexVal(c) ==
    IF c \in 48..57 THEN c - 48
    ELSE IF c \in 97..102 THEN c - 87
    ELSE IF c \in 65..70 THEN c - 55
    ELSE -1
HexDigit(v) == IF v < 10 THEN 48 + v ELSE 87 + v
\* The 32 hexadecimal digits of 16 bytes, and the hyphenated form of them.
HexOf(u) == [i \in 1..(2 * Len(u)) |-> HexDigit(IF i % 2 = 1 THEN u[(i + 1) \div 2] \div 16
                                                  ELSE u[i \div 2] % 16)]
Hyphenated(h) ==
    SubSeq(h, 1, 8) \o <<45>> \o SubSeq(h, 9, 12) \o <<45>> \o SubSeq(h, 13, 16) \o <<45>>
    \o SubSeq(h, 17, 20) \o <<45>> \o SubSeq(h, 21, 32)

\* Uuid::parse_str: 32 hexadecimal digits, or the same in groups of 8-4-4-4-12
\* with hyphens between them.
UuidParseStr(str) ==
    LET digits == IF Len(str) = 36 /\ \A i \in {9, 14, 19, 24} : str[i] = 45
                  THEN SubSeq(str, 1, 8) \o SubSeq(str, 10, 13) \o SubSeq(str, 15, 18)
                       \o SubSeq(str, 20, 23) \o SubSeq(str, 25, 36)
                  ELSE str
    IN  IF Len(digits) = 32 /\ \A i \in 1..32 : HexVal(digits[i]) >= 0
        THEN [ok |-> TRUE,
              uuid |-> [i \in 1..16 |-> 16 * HexVal(digits[2 * i - 1]) + HexVal(digits[2 * i])]]
        ELSE [ok |-> FALSE, uuid |-> <<>>]

\* What the session authority's endpoint can give back: no response at all
\* (sent = FALSE), or a status code and a body.  A body is JSON or not, and
\* the id of a JSON body is absent, a number or a string.
NoBody == [json |-> FALSE, idtype |-> "absent", id |-> <<>>]
JsonBodies ==
    {[json |-> TRUE, idtype |-> "absent", id |-> <<>>],
     [json |-> TRUE, idtype |-> "number", id |-> <<>>]}
    \cup {[json |-> TRUE, idtype |-> "string", id |-> str] :
            str \in {HexOf(Uuid1), Hyphenated(HexOf(Uuid1)), Tail(HexOf(Uuid1)),
                     <<103>> \o Tail(HexOf(Uuid1)), <<>>}}
StatusCodes == {200, 204, 403, 500}
AuthorityAnswers ==
    {[sent |-> FALSE, status |-> 0, body |-> NoBody]}
    \cup [sent : {TRUE}, status : StatusCodes, body : {NoBody} \cup JsonBodies]

\* api::authenticate: send()?, json::<Value>()?, data["id"].as_str() or an
\* error, Uuid::parse_str(..)?.  send() gives the response of any status and
\* the status is not looked at.
Authenticate(a) ==
    IF ~a.sent THEN [ok |-> FALSE, uuid |-> <<>>]
    ELSE IF ~a.body.json THEN [ok |-> FALSE, uuid |-> <<>>]
    ELSE IF a.body.idtype # "string" THEN [ok |-> FALSE, uuid |-> <<>>]
    ELSE UuidParseStr(a.body.id)

\* What api::authenticate returns: a profile id, or an error.
AuthResults == {Authenticate(a) : a \in AuthorityAnswers}

\* A match that takes a second Login Start in Encrypt.
DispatchLoginStartAgain(state, id) ==
    CASE state = "Handshaking" -> IF id = 0 THEN "handle_handshake" ELSE "Unrecognized"
      [] state = "Status" ->
            IF id = 0 THEN "handle_status_request"
            ELSE IF id = 1 THEN "handle_status_ping" ELSE "Unrecognized"
      [] state \in {"Login", "Encrypt"} ->
            IF id = 0 THEN "handle_login_start"
            ELSE IF state = "Encrypt" /\ id = 1 THEN "handle_login_encryption_response"
            ELSE "Unrecognized"
      [] state = "Play" -> "unimplemented"

\* A match that takes a second Encryption Response in Play.
DispatchResponseInPlay(state, id) ==
    CASE state = "Handshaking" -> IF id = 0 THEN "handle_handshake" ELSE "Unrecognized"
      [] state = "Status" ->
            IF id = 0 THEN "handle_status_request"
            ELSE IF id = 1 THEN "handle_status_ping" ELSE "Unrecognized"
      [] state = "Login" -> IF id = 0 THEN "handle_login_start" ELSE "Unrecognized"
      [] state \in {"Encrypt", "Play"} ->
            IF id = 1 THEN "handle_login_encryption_response"
            ELSE IF state = "Play" THEN "unimplemented" ELSE "Unrecognized"

\* The match of handle_packet on the phase and the packet id.
Dispatch(state, id) ==
    CASE state = "Handshaking" -> IF id = 0 THEN "handle_handshake" ELSE "Unrecognized"
      [] state = "Status" ->
            IF id = 0 THEN "handle_status_request"
            ELSE IF id = 1 THEN "handle_status_ping" ELSE "Unrecognized"
      [] state = "Login" -> IF id = 0 THEN "handle_login_start" ELSE "Unrecognized"
      [] state = "Encrypt" ->
            IF id = 1 THEN "handle_login_encryption_response" ELSE "Unrecognized"
      [] state = "Play" -> "unimplemented"

\* The match of handle_handshake with its two arms exchanged.
HandshakeTargetSwapped(next_state) ==
    CASE next_state = "Status" -> "Login"
      [] next_state = "Login" -> "Status"

\* The match of handle_handshake on next_state.
HandshakeTarget(next_state) ==
    CASE next_state = "Status" -> "Status"
      [] next_state = "Login" -> "Login"

\* A reader that hands out the newest frame first.
ReaderNextNewest(q) == [packet |-> q[Len(q)], rest |-> SubSeq(q, 1, Len(q) - 1)]

\* reader.next(): the frames come out in the order they arrived.
ReaderNext(q) == [packet |-> Head(q), rest |-> Tail(q)]

\* The writer: the encoder, FramedWrite's buffer, the socket, and the record
\* of what was sent.
Writer == [encrypter |-> encrypter, dst |-> dst, wire |-> wire, sent |-> sent, trace |-> trace]

\* FramedWrite's flush: the whole buffer goes to the socket.
WriterFlush(w) == [w EXCEPT !.wire = w.wire \o w.dst, !.dst = <<>>]

\* send: writer.send(packet) encodes the packet into the buffer and flushes.
\* n is the number of the inbound packet being answered.
WriterSend(w, name, item, n) ==
    Eval(ClientboundEncode(w.encrypter, item, w.dst), LAMBDA e :
        WriterFlush([encrypter |-> e.encrypter, dst |-> e.dst, wire |-> w.wire,
                     sent |-> Append(w.sent, [name |-> name, id |-> item.id,
                                              data |-> item.data,
                                              enc |-> w.encrypter.on,
                                              bytes |-> Drop(e.dst, Len(w.dst)),
                                              for |-> n]),
                     trace |-> Append(w.trace, name)]))

WriterIs(w) ==
    /\ encrypter' = w.encrypter
    /\ dst' = w.dst
    /\ wire' = w.wire
    /\ sent' = w.sent
    /\ trace' = w.trace

harnessVars == <<buffer, src, readable, pos, frames, dstatus, key, pkts, rawn, split,
                 eaten, switch, yielded>>

\* A client writes one more frame to the connection.
ClientSend(p) ==
    /\ status = "running"
    /\ peer.open
    /\ Len(arrived) < MaxInbound
    /\ Len(inq) < MaxQueue
    /\ inq' = Append(inq, p)
    /\ arrived' = Append(arrived, p)
    /\ UNCHANGED <<current_state, username, verify_token, pc, status, handled, sent,
                   trace, secret, encrypter, dst, wire, decrypter>>
    /\ UNCHANGED <<harnessVars, dt, peer, serverVars>>

\* The client closes its end of the socket (it writes no more; what it has
\* written stays readable and the server can still write to it).
ClientClose ==
    /\ status = "running"
    /\ peer.open
    /\ peer' = [open |-> FALSE, during |-> pc]
    /\ UNCHANGED <<codecVars, connVars, dt, serverVars>>

\* execute is at reader.next() and a frame is there.
Taking == pc = "next" /\ status = "running" /\ inq # <<>>
packet == ReaderNext(inq).packet
Dispatched(handler) ==
    /\ Taking
    /\ Dispatch(current_state, packet.id) = handler
    /\ inq' = ReaderNext(inq).rest
    /\ handled' = Append(handled, [packet |-> packet, state |-> current_state,
                                   wlen |-> Len(wire), pending |-> dst])
    /\ UNCHANGED <<arrived>>
    /\ UNCHANGED <<harnessVars, dt, peer, serverVars>>

\* handle_packet's error arms: the id is not one of the phase's.
HandleUnrecognized ==
    /\ Dispatched("Unrecognized")
    /\ status' = "error"
    /\ UNCHANGED <<current_state, username, verify_token, pc, sent, trace, secret,
                   encrypter, dst, wire, decrypter>>

\* handle_packet in Play: unimplemented!().
HandlePlay ==
    /\ Dispatched("unimplemented")
    /\ status' = "panic"
    /\ UNCHANGED <<current_state, username, verify_token, pc, sent, trace, secret,
                   encrypter, dst, wire, decrypter>>

HandleHandshake ==
    /\ Dispatched("handle_handshake")
    /\ \E handshake \in {HandshakeFromPacket(packet.data)} :
          IF handshake.kind = "Ok"
          THEN /\ current_state' = HandshakeTarget(handshake.value)
               /\ WriterIs(WriterFlush(Writer))
               /\ UNCHANGED status
          ELSE /\ status' = "error"
               /\ UNCHANGED <<current_state, sent, trace, encrypter, dst, wire>>
    /\ UNCHANGED <<username, verify_token, pc, secret, decrypter>>

HandleStatusRequest ==
    /\ Dispatched("handle_status_request")
    /\ \E request \in {RequestFromPacket(packet.data)} :
          IF request.kind = "Ok"
          THEN /\ WriterIs(WriterFlush(WriterSend(Writer, "Response",
                                ResponseIntoPacket(StatusJson), Len(handled) + 1)))
               /\ UNCHANGED status
          ELSE /\ status' = "error"
               /\ UNCHANGED <<sent, trace, encrypter, dst, wire>>
    /\ UNCHANGED <<current_state, username, verify_token, pc, secret, decrypter>>

HandleStatusPing ==
    /\ Dispatched("handle_status_ping")
    /\ \E ping \in {PingFromPacket(packet.data)} :
          IF ping.kind = "Ok"
          THEN /\ WriterIs(WriterFlush(WriterSend(Writer, "Pong",
                                PongIntoPacket(PongNew(ping.value)), Len(handled) + 1)))
               /\ UNCHANGED status
          ELSE /\ status' = (IF ping.kind = "Panic" THEN "panic" ELSE "error")
               /\ UNCHANGED <<sent, trace, encrypter, dst, wire>>
    /\ UNCHANGED <<current_state, username, verify_token, pc, secret, decrypter>>

HandleLoginStart(token) ==
    /\ Dispatched("handle_login_start")
    /\ \E start \in {StartFromPacket(packet.data)} :
          IF start.kind = "Ok"
          THEN /\ username' = <<start.value>>
               /\ verify_token' = <<token>>
               /\ current_state' = "Encrypt"
               /\ WriterIs(WriterFlush(WriterSend(Writer, "EncryptionRequest",
                                EncryptionRequestIntoPacket(PublicKeyDer, token),
                                Len(handled) + 1)))
               /\ UNCHANGED status
          ELSE /\ status' = "error"
               /\ UNCHANGED <<username, verify_token, current_state, sent, trace,
                              encrypter, dst, wire>>
    /\ UNCHANGED <<pc, secret, decrypter>>

\* A comparison of the verify token that accepts every token.
VerifyTokenNeverDiffers(stored, decrypted) == FALSE

\* The three checks of handle_login_encryption_response.
SharedSecretTooShort(num_bytes) == num_bytes < 16
VerifyTokenTooShort(num_bytes) == num_bytes < 4
VerifyTokenDiffers(stored, decrypted) == stored # SubSeq(decrypted, 1, 4)

\* handle_login_encryption_response up to the point where the ciphers are
\* enabled: the session key, or the error.
CheckEncryptionResponse(response, stored) ==
    Eval(RsaPrivateDecrypt(response.shared_secret), LAMBDA shared_secret_decrypted :
        IF ~shared_secret_decrypted.ok THEN [kind |-> "Err", key |-> <<>>]
        ELSE IF SharedSecretTooShort(shared_secret_decrypted.num_bytes)
        THEN [kind |-> "Err", key |-> <<>>]
        ELSE Eval(RsaPrivateDecrypt(response.verify_token), LAMBDA verify_token_decrypted :
            IF ~verify_token_decrypted.ok THEN [kind |-> "Err", key |-> <<>>]
            ELSE IF VerifyTokenTooShort(verify_token_decrypted.num_bytes)
            THEN [kind |-> "Err", key |-> <<>>]
            ELSE IF VerifyTokenDiffers(stored, verify_token_decrypted.to)
            THEN [kind |-> "Err", key |-> <<>>]
            ELSE [kind |-> "Ok", key |-> SubSeq(shared_secret_decrypted.to, 1, 16)]))

\* handle_login_encryption_response, first half: the packet is checked, both
\* ciphers are enabled and the request to the session authority is made; the
\* handler then waits for the answer.
HandleLoginEncryptionResponse ==
    /\ Dispatched("handle_login_encryption_response")
    /\ \E response \in {EncryptionResponseFromPacket(packet.data)} :
          IF response.kind = "Ok"
          THEN \E r \in {CheckEncryptionResponse(response.value, verify_token[1])} :
                  IF r.kind = "Ok"
                  THEN /\ decrypter' = DecoderEnableEncryption(r.key)
                       /\ encrypter' = EncoderEnableEncryption(r.key)
                       /\ secret' = r.key
                       /\ trace' = trace \o <<"enable_decoder", "enable_encoder",
                                                "authenticate">>
                       /\ pc' = "auth"
                       /\ UNCHANGED status
                  ELSE /\ status' = "error"
                       /\ UNCHANGED <<decrypter, encrypter, secret, trace, pc>>
          ELSE /\ status' = "error"
               /\ UNCHANGED <<decrypter, encrypter, secret, trace, pc>>
    /\ UNCHANGED <<current_state, username, verify_token, sent, dst, wire>>

\* An await of the session authority that drops the error.
AuthNeverFails(r) == FALSE

\* api::authenticate(..).await?
AuthFails(r) == ~r.ok

\* handle_login_encryption_response, second half: the session authority has
\* answered.  On success LoginSuccess is sent, the phase becomes Play and
\* JoinGame is sent; execute then flushes and goes back to reader.next().
AuthReturn(r) ==
    /\ pc = "auth"
    /\ status = "running"
    /\ pc' = "next"
    /\ IF AuthFails(r)
       THEN /\ status' = "error"
            /\ trace' = Append(trace, IF r.ok THEN "auth_ok" ELSE "auth_err")
            /\ UNCHANGED <<current_state, sent, encrypter, dst, wire>>
       ELSE /\ \E w1 \in {WriterSend([Writer EXCEPT !.trace =
                                         Append(trace, IF r.ok THEN "auth_ok" ELSE "auth_err")],
                                     "LoginSuccess",
                                     LoginSuccessIntoPacket(r.uuid, username[1]),
                                     Len(handled))} :
               \E w2 \in {WriterSend(w1, "JoinGame", JoinGameIntoPacket, Len(handled))} :
                  WriterIs(WriterFlush(w2))
            /\ current_state' = "Play"
            /\ UNCHANGED status
    /\ UNCHANGED <<username, verify_token, inq, arrived, handled, secret, decrypter>>
    /\ UNCHANGED <<harnessVars, dt, peer, serverVars>>

\* reader.next() returns None: the client closed the connection.
ReaderEof ==
    /\ pc = "next"
    /\ status = "running"
    /\ ~peer.open
    /\ inq = <<>>
    /\ status' = "closed"
    /\ UNCHANGED <<current_state, username, verify_token, pc, inq, arrived, handled,
                   sent, trace, secret, encrypter, dst, wire, decrypter>>
    /\ UNCHANGED <<harnessVars, dt, peer, serverVars>>

\* reader.next() returns an error: the bytes that follow do not decode.
ReaderError ==
    /\ pc = "next"
    /\ status = "running"
    /\ inq = <<>>
    /\ status' = "error"
    /\ UNCHANGED <<current_state, username, verify_token, pc, inq, arrived, handled,
                   sent, trace, secret, encrypter, dst, wire, decrypter>>
    /\ UNCHANGED <<harnessVars, dt, peer, serverVars>>

\* ConnectionHandler::new
Init ==
    /\ InitConn
    /\ key = <<>>
    /\ encrypter = NoCipher
    /\ decrypter = NoCipher
    /\ dst = <<>>
    /\ wire = <<>>
    /\ buffer = <<>>
    /\ src = <<>>
    /\ readable = FALSE
    /\ pos = 0
    /\ frames = <<>>
    /\ dstatus = "ok"
    /\ pkts = <<>>
    /\ rawn = 0
    /\ split = FALSE
    /\ InitHistory
    /\ InitServerIdle
    /\ dt = DataIdle

Next ==
    \/ \E p \in InboundPackets : ClientSend(p)
    \/ HandleHandshake
    \/ HandleStatusRequest
    \/ HandleStatusPing
    \/ \E token \in Tokens : HandleLoginStart(token)
    \/ HandleLoginEncryptionResponse
    \/ \E r \in AuthResults : AuthReturn(r)
    \/ HandleUnrecognized
    \/ HandlePlay
    \/ ClientClose
    \/ ReaderEof
    \/ ReaderError

Spec == Init /\ [][Next]_vars

\* ------------------------------------------------- the socket refuses a write
\* self.send(packet).await? returns an error: writer.send could not write the
\* frame to the socket.  The handler returns the error, execute returns it and
\* the writer is dropped with the handler, so what encode left in its buffer
\* is never written.
SendFailsIgnored(what) ==
    /\ trace' = Append(trace, what)
    /\ UNCHANGED <<status, pc, sent, secret, encrypter, dst, wire, decrypter>>

SendFails(what) ==
    /\ status' = "error"
    /\ trace' = Append(trace, what)
    /\ UNCHANGED <<pc, sent, secret, encrypter, dst, wire, decrypter>>

HandleStatusRequestSendFails ==
    /\ Dispatched("handle_status_request")
    /\ RequestFromPacket(packet.data).kind = "Ok"
    /\ SendFails("Response_err")
    /\ UNCHANGED <<current_state, username, verify_token>>

HandleStatusPingSendFails ==
    /\ Dispatched("handle_status_ping")
    /\ PingFromPacket(packet.data).kind = "Ok"
    /\ SendFails("Pong_err")
    /\ UNCHANGED <<current_state, username, verify_token>>

\* handle_login_start has stored the username and the token and set the phase
\* before it sends.
HandleLoginStartSendFails(token) ==
    /\ Dispatched("handle_login_start")
    /\ \E start \in {StartFromPacket(packet.data)} :
          /\ start.kind = "Ok"
          /\ username' = <<start.value>>
          /\ verify_token' = <<token>>
          /\ current_state' = "Encrypt"
    /\ SendFails("EncryptionRequest_err")

\* The second half of handle_login_encryption_response with a send that
\* fails: that of LoginSuccess (n = 0), or that of JoinGame after LoginSuccess
\* was sent and the phase set to Play (n = 1).
AuthReturnSendFails(r, n) ==
    /\ pc = "auth"
    /\ status = "running"
    /\ ~AuthFails(r)
    /\ pc' = "next"
    /\ status' = "error"
    /\ IF n = 0
       THEN /\ trace' = trace \o <<"auth_ok", "LoginSuccess_err">>
            /\ UNCHANGED <<current_state, sent, encrypter, dst, wire>>
       ELSE /\ \E w1 \in {WriterSend([Writer EXCEPT !.trace = Append(trace, "auth_ok")],
                                     "LoginSuccess",
                                     LoginSuccessIntoPacket(r.uuid, username[1]),
                                     Len(handled))} :
                  WriterIs([w1 EXCEPT !.trace = Append(w1.trace, "JoinGame_err")])
            /\ current_state' = "Play"
    /\ UNCHANGED <<username, verify_token, inq, arrived, handled, secret, decrypter>>
    /\ UNCHANGED <<harnessVars, dt, peer, serverVars>>

\* self.writer.flush().await? in execute returns an error after a handler has
\* returned Ok.
ExecuteFlushFails ==
    /\ pc = "next"
    /\ status = "running"
    /\ handled # <<>>
    /\ SendFails("flush_err")
    /\ UNCHANGED <<current_state, username, verify_token, inq, arrived, handled>>
    /\ UNCHANGED <<harnessVars, dt, peer, serverVars>>

\* The connection task with sockets that may refuse a write.
NextIo ==
    \/ Next
    \/ ExecuteFlushFails
    \/ HandleStatusRequestSendFails
    \/ HandleStatusPingSendFails
    \/ \E token \in Tokens : HandleLoginStartSendFails(token)
    \/ \E r \in AuthResults, n \in {0, 1} : AuthReturnSendFails(r, n)

SpecIo == Init /\ [][NextIo]_vars

\* ------------------------------------------------------------------ claims
\* The cleartext frame of a packet: VarInt length, VarInt id, body.
Frame(p) == VarIntWriteTo(VarIntSize(p.id) + Len(p.data)) \o VarIntWriteTo(p.id) \o p.data

\* The bytes, and the cleartext frames, of the packets sent from the i-th to
\* the j-th.
RECURSIVE SentBytes(_, _)
SentBytes(i, j) == IF i > j THEN <<>> ELSE sent[i].bytes \o SentBytes(i + 1, j)
RECURSIVE SentFrames(_, _)
SentFrames(i, j) == IF i > j THEN <<>> ELSE Frame(sent[i]) \o SentFrames(i + 1, j)

Cleartext(j) == ~sent[j].enc /\ sent[j].bytes = Frame(sent[j])
Last(q) == q[Len(q)]

\* C3: Response, Pong and EncryptionRequest go out as their cleartext frames;
\* LoginSuccess is the first packet that goes through the outbound cipher, and
\* from it on the bytes on the socket are the AES/CFB8 encryption, under the
\* session key and as one stream, of the frames sent (JoinGame included).
C3_LoginSuccessFirstEncrypted ==
    /\ wire \o dst = SentBytes(1, Len(sent))
    /\ \A j \in 1..Len(sent) :
          /\ sent[j].name \in {"Response", "Pong", "EncryptionRequest"} => Cleartext(j)
          /\ sent[j].name = "LoginSuccess" =>
                /\ \A i \in 1..(j - 1) : Cleartext(i)
                /\ \A i \in j..Len(sent) : sent[i].enc
                /\ sent[j].bytes = CfbEncrypt(CrypterNew(secret), Frame(sent[j])).out
                /\ \A i \in (j + 1)..Len(sent) :
                      sent[i].bytes =
                         CfbEncrypt(CfbEncrypt(CrypterNew(secret), SentFrames(j, i - 1)).cipher,
                                    Frame(sent[i])).out
          /\ sent[j].name = "JoinGame" =>
                j > 1 /\ sent[j - 1].name = "LoginSuccess" /\ sent[j].enc

C3_Witness ==
    /\ Len(sent) = 3
    /\ sent[1].name = "EncryptionRequest"
    /\ sent[2].name = "LoginSuccess"
    /\ sent[3].name = "JoinGame"
    /\ wire = SentBytes(1, 3)

\* The phase changes a step may make, with the packet that was handled last.
AllowedPhaseChange ==
    \/ /\ current_state = "Handshaking" /\ current_state' = "Status"
       /\ handled' = Append(handled, Last(handled'))
       /\ Last(handled').packet = [id |-> 0, data |-> HandshakeBody(1)]
    \/ /\ current_state = "Handshaking" /\ current_state' = "Login"
       /\ handled' = Append(handled, Last(handled'))
       /\ Last(handled').packet = [id |-> 0, data |-> HandshakeBody(2)]
    \/ /\ current_state = "Login" /\ current_state' = "Encrypt"
       /\ handled' = Append(handled, Last(handled'))
       /\ Last(handled').packet.id = 0
       /\ StartFromPacket(Last(handled').packet.data).kind = "Ok"
    \/ /\ current_state = "Encrypt" /\ current_state' = "Play"
       /\ handled' = handled
       /\ Last(handled).state = "Encrypt"
       /\ \E s \in ClientSecrets :
             /\ Len(s) >= 16 /\ SubSeq(s, 1, 16) = secret
             /\ Last(handled).packet =
                   [id |-> 1, data |-> EncryptionResponseBody(s, verify_token[1])]

\* C4: a connection starts in Handshaking, and every step that changes the
\* phase is Handshaking->Status on Handshake{1}, Handshaking->Login on
\* Handshake{2}, Login->Encrypt on Start, or Encrypt->Play on an accepted
\* EncryptionResponse; Request and Ping leave the phase Status.
C4_PhaseTransitions ==
    /\ current_state = "Handshaking"
    /\ [][/\ current_state' # current_state => AllowedPhaseChange
          /\ (current_state = "Status" /\ handled' # handled) => current_state' = "Status"]_vars

C4_Witness ==
    /\ current_state = "Play"
    /\ Len(handled) = 3
    /\ handled[1].state = "Handshaking"
    /\ handled[2].state = "Login"
    /\ handled[3].state = "Encrypt"

\* The ids of the inbound table of each phase.
ListedIds(state) ==
    CASE state \in {"Handshaking", "Login"} -> {0}
      [] state = "Status" -> {0, 1}
      [] state = "Encrypt" -> {1}
      [] state = "Play" -> {}

\* The replies sent for the n-th inbound packet.
RepliesTo(n) == {j \in 1..Len(sent) : sent[j].for = n}

\* C5: in every phase, Play included, a packet whose id is not in the phase's
\* table ends the connection with an error returned by handle_packet, no reply
\* is sent for it and the phase stays what it was.
C5_UnlistedIdIsError ==
    \A i \in 1..Len(handled) :
        handled[i].packet.id \notin ListedIds(handled[i].state) =>
            /\ i = Len(handled)
            /\ status = "error"
            /\ RepliesTo(i) = {}
            /\ current_state = handled[i].state

\* C5 outside Play.
UnlistedIdBeforePlay ==
    \A i \in 1..Len(handled) :
        (handled[i].state # "Play" /\ handled[i].packet.id \notin ListedIds(handled[i].state)) =>
            /\ i = Len(handled)
            /\ status = "error"
            /\ RepliesTo(i) = {}
            /\ current_state = handled[i].state

\* The EncryptionResponse handled as the i-th packet is one the handler must
\* refuse: its secret is short, its token is short, or its token is not the
\* one stored.
RefusedResponse(i) ==
    /\ handled[i].state = "Encrypt"
    /\ handled[i].packet.id = 1
    /\ \E s \in ClientSecrets, t \in Tokens \cup {ShortToken} :
          /\ handled[i].packet.data = EncryptionResponseBody(s, t)
          /\ Len(s) < 16 \/ Len(t) < 4 \/ SubSeq(t, 1, 4) # verify_token[1]

NeverLoggedIn ==
    /\ \A j \in 1..Len(sent) : sent[j].name \notin {"LoginSuccess", "JoinGame"}
    /\ \A i \in 1..Len(handled) : handled[i].state # "Play"
    /\ current_state # "Play"

\* C6: an EncryptionResponse with a secret under 16 bytes, a token under 4
\* bytes or a token other than the stored one fails the connection with an
\* error; no cipher is enabled, the session authority is not called, neither
\* LoginSuccess nor JoinGame is sent and the phase is never Play.
C6_RefusedResponse ==
    \A i \in 1..Len(handled) :
        RefusedResponse(i) =>
            /\ i = Len(handled)
            /\ status = "error"
            /\ pc = "next"
            /\ ~encrypter.on /\ ~decrypter.on
            /\ \A k \in 1..Len(trace) :
                  trace[k] \notin {"enable_decoder", "enable_encoder", "authenticate"}
            /\ NeverLoggedIn

C6_Witness ==
    /\ handled # <<>>
    /\ RefusedResponse(Len(handled))
    /\ Last(handled).packet.data = EncryptionResponseBody(Key1, Token1)
    /\ verify_token = <<Token2>>
    /\ status = "error"

\* The refusals for a short secret and for a short token are reached too.
ShortSecretRefused ==
    /\ handled # <<>>
    /\ Last(handled).state = "Encrypt"
    /\ Last(handled).packet.data = EncryptionResponseBody(ShortSecret, Token1)
ShortTokenRefused ==
    /\ handled # <<>>
    /\ Last(handled).state = "Encrypt"
    /\ Last(handled).packet.data = EncryptionResponseBody(Key1, ShortToken)

Positions(e) == {k \in 1..Len(trace) : trace[k] = e}

\* C7: the session authority is called after both ciphers are enabled and
\* before LoginSuccess is sent; when the call fails the connection ends with an
\* error, LoginSuccess and JoinGame are never sent and the phase is never Play.
C7_AuthBetweenCiphersAndSuccess ==
    /\ \A a \in Positions("authenticate") :
          /\ \E k \in Positions("enable_decoder") : k < a
          /\ \E k \in Positions("enable_encoder") : k < a
          /\ \A k \in Positions("LoginSuccess") : a < k
          /\ encrypter.on /\ decrypter.on
    /\ \A k \in Positions("LoginSuccess") :
          \E a \in Positions("authenticate"), o \in Positions("auth_ok") : a < o /\ o < k
    /\ Positions("auth_err") # {} => (status = "error" /\ NeverLoggedIn)

C7_Witness ==
    /\ status = "error"
    /\ trace = <<"EncryptionRequest", "enable_decoder", "enable_encoder", "authenticate",
                 "auth_err">>

\* The call succeeding is reached too.
AuthOkReached ==
    trace = <<"EncryptionRequest", "enable_decoder", "enable_encoder", "authenticate",
              "auth_ok", "LoginSuccess", "JoinGame">>

\* The phase after the i-th packet was handled.
PhaseAfter(i) == IF i < Len(handled) THEN handled[i + 1].state ELSE current_state

\* C8: in Status each Request with an empty body gets exactly one Response
\* (id 0) and each Ping with an 8-byte payload K exactly one Pong (id 1) with
\* the same 8 bytes, and the phase is Status afterwards.
C8_StatusReplies ==
    \A i \in 1..Len(handled) :
        handled[i].state = "Status" =>
            /\ (handled[i].packet.id = 0 /\ handled[i].packet.data = <<>>) =>
                  /\ Cardinality(RepliesTo(i)) = 1
                  /\ \A j \in RepliesTo(i) : sent[j].id = 0 /\ sent[j].name = "Response"
                  /\ PhaseAfter(i) = "Status"
            /\ (handled[i].packet.id = 1 /\ Len(handled[i].packet.data) = 8) =>
                  /\ Cardinality(RepliesTo(i)) = 1
                  /\ \A j \in RepliesTo(i) :
                        /\ sent[j].id = 1
                        /\ sent[j].data = handled[i].packet.data
                        /\ sent[j].bytes = <<9, 1>> \o handled[i].packet.data
                  /\ PhaseAfter(i) = "Status"

C8_Witness ==
    /\ Len(handled) = 4
    /\ handled[2].packet = [id |-> 1, data |-> <<255, 1, 2, 3, 4, 5, 6, 128>>]
    /\ handled[3].packet = [id |-> 0, data |-> <<>>]
    /\ handled[4].packet = [id |-> 1, data |-> <<0, 0, 0, 0, 0, 0, 1, 44>>]
    /\ Len(sent) = 3
    /\ status = "running"

\* C9: a Handshake whose next_state is neither 1 nor 2 fails the connection
\* with an error, the phase stays Handshaking and nothing is sent.
C9_UnknownNextState ==
    \A i \in 1..Len(handled) :
        (/\ handled[i].state = "Handshaking"
         /\ \E ns \in {0, 3} : handled[i].packet = [id |-> 0, data |-> HandshakeBody(ns)]) =>
            /\ i = 1 /\ Len(handled) = 1
            /\ status = "error"
            /\ current_state = "Handshaking"
            /\ sent = <<>> /\ wire = <<>> /\ dst = <<>>

C9_Witness ==
    /\ Len(handled) = 1
    /\ handled[1].packet = [id |-> 0, data |-> HandshakeBody(3)]
    /\ status = "error"

\* The number of bytes of the replies to the packets before the n-th.
RECURSIVE BytesBefore(_, _)
BytesBefore(n, j) ==
    IF j = 0 THEN 0
    ELSE BytesBefore(n, j - 1) + (IF sent[j].for < n THEN Len(sent[j].bytes) ELSE 0)

\* C10: packets are handled in the order they arrived; when the n-th is taken
\* every byte of the replies to the packets before it is on the socket and
\* nothing waits in the write buffer; the replies are on the socket in the
\* order of the packets they answer.
C10_Fifo ==
    /\ Len(handled) <= Len(arrived)
    /\ \A i \in 1..Len(handled) :
          /\ handled[i].packet = arrived[i]
          /\ handled[i].pending = <<>>
          /\ handled[i].wlen = BytesBefore(i, Len(sent))
    /\ \A j, k \in 1..Len(sent) : j < k => sent[j].for <= sent[k].for
    /\ wire \o dst = SentBytes(1, Len(sent))
    /\ pc = "next" => dst = <<>>

C10_Witness ==
    /\ Len(handled) = 3
    /\ Len(sent) = 2
    /\ sent[1].for = 2
    /\ sent[2].for = 3
    /\ arrived[2] # arrived[3]
    /\ handled[3].wlen = Len(sent[1].bytes)

\* The EncryptionResponse handled as the i-th packet passes the three checks
\* for the stored token, and the first 16 bytes of its secret are k.
AcceptedResponse(i, k) ==
    /\ handled[i].state = "Encrypt"
    /\ handled[i].packet.id = 1
    /\ \E s \in ClientSecrets, t \in Tokens \cup {ShortToken} :
          /\ handled[i].packet.data = EncryptionResponseBody(s, t)
          /\ Len(s) >= 16 /\ SubSeq(s, 1, 16) = k
          /\ Len(t) >= 4 /\ SubSeq(t, 1, 4) = verify_token[1]

\* C12: the two ciphers are enabled together and with the same key, the first
\* 16 bytes of the decrypted shared secret of an EncryptionResponse whose
\* verify token matched; both are enabled before LoginSuccess is encoded; and
\* whenever the handling of a packet is over the decoder has a cipher exactly
\* when the encoder has one.
C12_CiphersEnabledTogether ==
    /\ pc = "next" => (decrypter.on <=> encrypter.on)
    /\ (decrypter.on \/ encrypter.on) =>
          /\ decrypter.on /\ encrypter.on
          /\ decrypter.key = encrypter.key
          /\ Len(encrypter.key) = 16
          /\ \E i \in 1..Len(handled) : AcceptedResponse(i, encrypter.key)
    /\ \A k \in Positions("enable_decoder") :
          /\ k < Len(trace) /\ trace[k + 1] = "enable_encoder"
          /\ \A j \in Positions("LoginSuccess") : k + 1 < j
    /\ \A k \in Positions("enable_encoder") : k > 1 /\ trace[k - 1] = "enable_decoder"
    /\ \A j \in 1..Len(sent) : sent[j].name = "LoginSuccess" => sent[j].enc

C12_Witness ==
    /\ pc = "next"
    /\ current_state = "Play"
    /\ decrypter.on /\ encrypter.on
    /\ encrypter.key = Key2
    /\ Len(sent) = 3
    /\ handled # <<>> /\ AcceptedResponse(Len(handled), Key2)

\* -------------------------------------------------- malformed packet bodies
\* The i-th handled packet failed the connection with an error result: it is
\* the last one handled, nothing was sent for it and the phase is the one it
\* arrived in.
FailedAt(i) ==
    /\ i = Len(handled)
    /\ status = "error"
    /\ RepliesTo(i) = {}
    /\ current_state = handled[i].state
    /\ Len(wire) = handled[i].wlen /\ dst = handled[i].pending

\* A Handshake whose server_address prefix is over 255 and a Login Start whose
\* username prefix is over 16 fail the connection.
OversizePrefixFails ==
    \A i \in 1..Len(handled) :
        (\/ handled[i].state = "Handshaking" /\ handled[i].packet = [id |-> 0, data |-> LongAddress]
         \/ handled[i].state = "Login" /\ handled[i].packet = [id |-> 0, data |-> LongName])
            => FailedAt(i)

OversizePrefixReached ==
    /\ Len(handled) = 2
    /\ handled[2].state = "Login"
    /\ handled[2].packet = [id |-> 0, data |-> LongName]
    /\ status = "error" /\ sent = <<>>

\* The body of the handled packet ends before the fields of its type do.
BodyEndsEarly(h) ==
    \/ h.state = "Status" /\ h.packet.id = 1 /\ Len(h.packet.data) < 8
    \/ h.state = "Handshaking" /\ h.packet.id = 0 /\ h.packet.data \in {<<>>, MissingPort}
    \/ h.state = "Login" /\ h.packet.id = 0 /\ h.packet.data = <<>>

\* C23: a packet whose body ends before all its fields are read (a Status Ping
\* of fewer than 8 bytes, a Handshake without its port, an empty Handshake or
\* Login Start) ends the connection with an error result: no reply, the phase
\* unchanged, no later packet handled.
C23_ShortBodyIsError ==
    \A i \in 1..Len(handled) : BodyEndsEarly(handled[i]) => FailedAt(i)

\* C23, as the code has it: a Ping of 2 to 7 bytes passes the `remaining() >= 2`
\* test of Long::read_from and get_i64 panics; the task ends by the panic, not
\* by an error result.  Every other short body is an error result.
C23_ShortLongPanics ==
    \A i \in 1..Len(handled) :
        BodyEndsEarly(handled[i]) =>
            /\ i = Len(handled)
            /\ RepliesTo(i) = {}
            /\ current_state = handled[i].state
            /\ status = (IF handled[i].state = "Status" /\ Len(handled[i].packet.data) \in 2..7
                         THEN "panic" ELSE "error")

C23_Witness ==
    /\ Len(handled) = 2
    /\ handled[2].state = "Status"
    /\ handled[2].packet = [id |-> 1, data |-> <<0, 0, 7>>]
    /\ status = "panic"
    /\ sent = <<>>

\* A short body that is an error result.
ShortBodyErrorReached ==
    /\ Len(handled) = 2
    /\ handled[2].state = "Status"
    /\ handled[2].packet = [id |-> 1, data |-> <<7>>]
    /\ status = "error"

\* C24: a Status Request (id 0) whose body is not empty fails the connection
\* and no Response is sent for it; one with an empty body is answered.
C24_RequestBodyEmpty ==
    \A i \in 1..Len(handled) :
        (handled[i].state = "Status" /\ handled[i].packet.id = 0) =>
            IF handled[i].packet.data = <<>>
            THEN \E j \in RepliesTo(i) : sent[j].name = "Response"
            ELSE FailedAt(i)

C24_Witness ==
    /\ Len(handled) = 3
    /\ handled[2].state = "Status" /\ handled[2].packet = [id |-> 0, data |-> <<>>]
    /\ handled[3].state = "Status" /\ handled[3].packet = [id |-> 0, data |-> <<2, 104, 105>>]
    /\ status = "error"
    /\ Len(sent) = 1

\* ---------------------------------------------------------------- JoinGame
\* The twelve-field JoinGame values that agree with what handle_login_
\* encryption_response passes (entity 0, gamemode 0, seed 0, "flat", view
\* distance 4, false, true), for a few values of the fields it does not pass.
Overworld == <<111, 118, 101, 114, 119, 111, 114, 108, 100>>
JoinGames ==
    [entity_id : {0}, is_hardcore : BOOLEAN, gamemode : {0}, previous_gamemode : {-1, 0},
     world_names : {<<>>, <<Overworld>>}, dimension_codec : {<<>>, Overworld},
     hashed_seed : {LongZero}, max_players : {0}, level_type : {<<102, 108, 97, 116>>},
     view_distance : {4}, reduced_debug_info : {FALSE}, enable_respawn_screen : {TRUE}]

\* C25: the JoinGame sent on entering Play has id 0x24 and a body of the
\* twelve fields entity_id, is_hardcore, gamemode, previous_gamemode,
\* world_names, dimension_codec, hashed_seed, max_players, level_type,
\* view_distance, reduced_debug_info, enable_respawn_screen in that order.
C25_JoinGame0x24 ==
    \A k \in 1..Len(sent) :
        sent[k].name = "JoinGame" =>
            /\ sent[k].id = 36
            /\ \E j \in JoinGames : sent[k].data = DerivedJoinGameIntoPacket(j).data

\* C25, as the code has it: the JoinGame that is sent has id 0x26 and the nine
\* fields entity_id, gamemode, dimension, hashed_seed, max_players, level_type,
\* view_distance, reduced_debug_info, enable_respawn_screen; it is the last
\* packet sent, right after LoginSuccess, and the phase is Play.
C25_JoinGame0x26 ==
    \A k \in 1..Len(sent) :
        sent[k].name = "JoinGame" =>
            /\ sent[k].id = 38
            /\ sent[k].data = <<0, 0, 0, 0>> \o <<0>> \o <<0, 0, 0, 0>>
                              \o <<0, 0, 0, 0, 0, 0, 0, 0>> \o <<0>>
                              \o <<4, 102, 108, 97, 116>> \o <<4>> \o <<1>> \o <<0>>
            /\ k = Len(sent) /\ k > 1 /\ sent[k - 1].name = "LoginSuccess"
            /\ current_state = "Play"
            /\ sent[k].enc

C25_Witness ==
    /\ current_state = "Play"
    /\ sent # <<>>
    /\ Last(sent).name = "JoinGame"
    /\ Last(sent).id = 38
    /\ Len(Last(sent).data) = 26

\* ------------------------------------------- the client closes in flight
\* C27: when the client has closed its end while the session-authority
\* request was in flight, the task ends and the answer is discarded: nothing
\* is sent on it and the phase does not become Play.
C27_CloseAbandonsRequest ==
    [][(~peer.open /\ peer.during = "auth" /\ pc = "auth") =>
          /\ sent' = sent
          /\ current_state' # "Play"
          /\ status' # "running"]_vars

\* C27, as the code has it: execute is inside handle_packet, which awaits the
\* request; the reader is not polled until it returns.  A close in flight
\* changes nothing: a profile is answered with LoginSuccess and JoinGame and
\* the phase becomes Play, an error ends the task, and the close is seen only
\* at the next reader.next().
C27_CloseSeenAfterRequest ==
    [][(~peer.open /\ peer.during = "auth" /\ pc = "auth") =>
          \/ /\ status' = "error" /\ sent' = sent /\ current_state' = current_state
          \/ /\ status' = "running" /\ pc' = "next"
             /\ current_state' = "Play"
             /\ Len(sent') = Len(sent) + 2
             /\ sent'[Len(sent) + 1].name = "LoginSuccess"
             /\ sent'[Len(sent) + 2].name = "JoinGame"]_vars

C27_Witness ==
    /\ ~peer.open /\ peer.during = "auth"
    /\ pc = "next"
    /\ current_state = "Play"
    /\ status = "closed"
    /\ Len(sent) = 3
    /\ Last(sent).name = "JoinGame"

\* The fields of an EncryptionRequest body as a client reads them.
EncryptionRequestFields(data) ==
    LET server_id == StringReadFromSized(data, 20)
        public_key == ByteArrayReadFromSized(server_id.rest, 1024)
        token == ByteArrayReadFromSized(public_key.rest, 1024)
    IN  [ok |-> server_id.kind = "Ok" /\ public_key.kind = "Ok" /\ token.kind = "Ok"
                /\ token.rest = <<>>,
         server_id |-> server_id.value,
         public_key |-> public_key.value,
         verify_token |-> token.value]
\* handle_login_start has run on a Start that parsed.
LoginStarted == current_state = "Login" /\ current_state' = "Encrypt"
\* handle_login_encryption_response has accepted a response.
ResponseAccepted == current_state = "Encrypt" /\ pc = "next" /\ pc' = "auth"

\* C31: handling Login Start stores the username of the packet and a 4-byte
\* verify_token, and sends exactly one packet, an EncryptionRequest whose
\* server_id is empty and whose verify_token field is the stored token; an
\* EncryptionResponse is accepted only if its decrypted token is that token.
C31_LoginStartStoresAndSends ==
    [][/\ LoginStarted =>
            /\ username' = <<StartFromPacket(packet.data).value>>
            /\ Len(verify_token') = 1
            /\ Len(verify_token'[1]) = 4
            /\ Len(sent') = Len(sent) + 1
            /\ Last(sent').name = "EncryptionRequest"
            /\ Last(sent').id = 1
            /\ EncryptionRequestFields(Last(sent').data).ok
            /\ EncryptionRequestFields(Last(sent').data).server_id = <<>>
            /\ EncryptionRequestFields(Last(sent').data).public_key = PublicKeyDer
            /\ EncryptionRequestFields(Last(sent').data).verify_token = verify_token'[1]
       /\ ResponseAccepted =>
            SubSeq(RsaPrivateDecrypt(
                     EncryptionResponseFromPacket(packet.data).value.verify_token).to, 1, 4)
              = verify_token[1]]_vars

\* C31 witness: Start{"hi"} was handled with the token 10 20 30 41: it is
\* stored, the EncryptionRequest is the one packet sent, and the connection
\* waits in Encrypt.
C31_Witness ==
    /\ current_state = "Encrypt"
    /\ pc = "next"
    /\ status = "running"
    /\ username = <<<<104, 105>>>>
    /\ verify_token = <<Token2>>
    /\ Len(sent) = 1
    /\ sent[1].name = "EncryptionRequest"
    /\ EncryptionRequestFields(sent[1].data).verify_token = Token2

\* The stored token was the one compared: the response for 10 20 30 40 was
\* accepted on the connection that stored 10 20 30 40.
C31_WitnessAccepted ==
    /\ pc = "auth"
    /\ verify_token = <<Token1>>
    /\ Len(sent) = 1

\* Where in sent the packets of a name are.
SentAt(name) == {j \in 1..Len(sent) : sent[j].name = name}
\* The second half of handle_login_encryption_response has returned Ok.
LoggedIn == pc = "auth" /\ pc' = "next" /\ status' = "running"
\* The UUIDs the session authority can return.
ProfileIds == {r.uuid : r \in {a \in AuthResults : a.ok}}

\* C32: when the response was accepted and authentication succeeded, the
\* handler sends LoginSuccess (the UUID of the session authority, then the
\* username stored at Start) and then JoinGame, each once and in that order;
\* the phase is Play only after LoginSuccess was sent, and when the send of
\* LoginSuccess fails neither packet is sent and the phase is not Play.
C32_LoginSuccessThenJoinGame ==
    /\ [][LoggedIn =>
            /\ Len(sent') = Len(sent) + 2
            /\ SubSeq(sent', 1, Len(sent)) = sent
            /\ sent'[Len(sent) + 1].name = "LoginSuccess"
            /\ sent'[Len(sent) + 1].id = 2
            /\ Take(sent'[Len(sent) + 1].data, 16) \in ProfileIds
            /\ StringReadFromSized(Drop(sent'[Len(sent) + 1].data, 16), 16)
                 = ReadResult("Ok", username[1], <<>>)
            /\ sent'[Len(sent) + 2].name = "JoinGame"
            /\ current_state = "Encrypt"
            /\ current_state' = "Play"]_vars
    /\ [](/\ Cardinality(SentAt("LoginSuccess")) <= 1
          /\ Cardinality(SentAt("JoinGame")) <= 1
          /\ \A j \in SentAt("JoinGame") : j > 1 /\ sent[j - 1].name = "LoginSuccess"
          /\ \A j \in SentAt("LoginSuccess") :
                \E o \in Positions("auth_ok"), k \in Positions("LoginSuccess") : o < k
          /\ current_state = "Play" => SentAt("LoginSuccess") # {}
          /\ Positions("LoginSuccess_err") # {} =>
                /\ SentAt("LoginSuccess") = {}
                /\ SentAt("JoinGame") = {}
                /\ current_state # "Play"
                /\ status = "error")

\* C32 witness: the login went through: LoginSuccess with the profile id and
\* the name "hi", then JoinGame, and the phase is Play.
C32_Witness ==
    /\ current_state = "Play"
    /\ status = "running"
    /\ username = <<<<104, 105>>>>
    /\ Len(sent) = 3
    /\ sent[2].name = "LoginSuccess"
    /\ sent[2].data = Uuid1 \o <<2, 104, 105>>
    /\ sent[3].name = "JoinGame"

\* The send of LoginSuccess failed: the connection ended in Encrypt.
C32_WitnessSendFailed ==
    /\ Positions("LoginSuccess_err") # {}
    /\ status = "error"
    /\ current_state = "Encrypt"
    /\ Len(sent) = 1

\* The send of JoinGame failed after LoginSuccess had gone out.
C32_WitnessJoinGameFailed ==
    /\ Positions("JoinGame_err") # {}
    /\ current_state = "Play"
    /\ Len(sent) = 2
    /\ sent[2].name = "LoginSuccess"

\* The login information is there in Encrypt and Play and nowhere else.
LoginInformationPresent ==
    /\ current_state \in {"Encrypt", "Play"} => Len(username) = 1 /\ Len(verify_token) = 1
    /\ current_state \in {"Handshaking", "Status", "Login"} =>
           username = <<>> /\ verify_token = <<>>

\* C36: in Encrypt and in Play both username and verify_token are present (the
\* unwraps of the Encryption Response handler cannot fail); in Handshaking,
\* Status and Login both are absent; once set, neither changes again.
C36_LoginInformation ==
    /\ []LoginInformationPresent
    /\ [][/\ username # <<>> => username' = username
          /\ verify_token # <<>> => verify_token' = verify_token]_vars

\* C36 witness: the connection is in Play with the name and the token that
\* Login Start stored, after the handler of Encryption Response unwrapped both.
C36_Witness ==
    /\ current_state = "Play"
    /\ \E i \in 1..Len(handled) :
          /\ handled[i].state = "Login"
          /\ StartFromPacket(handled[i].packet.data).kind = "Ok"
          /\ username = <<StartFromPacket(handled[i].packet.data).value>>
    /\ verify_token \in {<<t>> : t \in Tokens}
    /\ \E i \in 1..Len(handled) : handled[i].state = "Encrypt"

\* A connection that chose Status has answered a Request and stored nothing.
C36_WitnessStatus ==
    /\ current_state = "Status"
    /\ Len(sent) >= 1
    /\ username = <<>> /\ verify_token = <<>>

\* The send of Encryption Request failed: the connection ends in Encrypt with
\* both stored.
C36_WitnessSendFailed ==
    /\ Positions("EncryptionRequest_err") # {}
    /\ current_state = "Encrypt"
    /\ Len(username) = 1 /\ Len(verify_token) = 1

\* Once enabled a cipher stays enabled with the key it has.
CipherKept(c, next) == c.on => next.on /\ next.key = c.key

\* C37: a cipher is enabled only in Encrypt or Play, so a connection in
\* Handshaking, Status or Login has none and what Status sends is cleartext;
\* once enabled, a cipher is never disabled and never given another key.
C37_CipherOnlyAfterLogin ==
    /\ [](/\ encrypter.on \/ decrypter.on => current_state \in {"Encrypt", "Play"}
          /\ \A i \in 1..Len(sent) : sent[i].name \in {"Response", "Pong"} => ~sent[i].enc)
    /\ [][CipherKept(encrypter, encrypter') /\ CipherKept(decrypter, decrypter')]_vars

\* C37 witness: the connection is in Play, both ciphers enabled with the
\* session key the client sent, and JoinGame went out encrypted.
C37_Witness ==
    /\ current_state = "Play"
    /\ encrypter.on /\ decrypter.on
    /\ encrypter.key = secret /\ decrypter.key = secret
    /\ \E i \in 1..Len(sent) : sent[i].name = "JoinGame" /\ sent[i].enc

\* Both ciphers are enabled in Encrypt while the session authority is asked.
C37_WitnessEncrypt ==
    /\ current_state = "Encrypt" /\ pc = "auth"
    /\ encrypter.on /\ decrypter.on

\* A connection that chose Status has sent Response and Pong with no cipher.
C37_WitnessStatus ==
    /\ current_state = "Status"
    /\ Len(sent) = 2
    /\ ~encrypter.on /\ ~decrypter.on

\* The marks a failed write leaves in the trace, and that of a failed call of
\* the session authority.
ErrorMarks ==
    {"Response_err", "Pong_err", "EncryptionRequest_err", "LoginSuccess_err",
     "JoinGame_err", "flush_err", "auth_err"}
Failed == \E k \in 1..Len(trace) : trace[k] \in ErrorMarks
Returned == status # "running" \/ Failed

\* C39: after the first fatal error (of the decoder, of a parse, of a handler
\* or of a write or flush) execute has returned the error: no later packet is
\* handled, nothing more is sent and the phase does not change again; execute
\* returns Ok only when the stream of inbound packets ended with no error.
C39_ErrorEndsConnection ==
    /\ [](/\ Failed => status = "error"
          /\ status = "closed" => ~peer.open /\ inq = <<>> /\ pc = "next")
    /\ [][/\ Returned => UNCHANGED <<status, handled, sent, wire, current_state, pc>>
          /\ status' = "closed" =>
                \/ status = "closed"
                \/ status = "running" /\ ~peer.open /\ inq = <<>> /\ pc = "next"]_vars

\* C39 witness: the send of Response failed with a Ping already decoded: the
\* connection has ended with an error, the Ping unhandled and nothing sent.
C39_Witness ==
    /\ status = "error"
    /\ Positions("Response_err") # {}
    /\ inq # <<>> /\ Head(inq).id = 1
    /\ current_state = "Status"
    /\ sent = <<>>

\* A packet that does not parse ended the connection with one still waiting.
C39_WitnessParse ==
    /\ status = "error"
    /\ ~Failed
    /\ handled # <<>>
    /\ Last(handled).state = "Handshaking"
    /\ Last(handled).packet.data = <<>>
    /\ inq # <<>>

\* The flush of execute failed after Response was sent.
C39_WitnessFlush ==
    /\ status = "error"
    /\ Positions("flush_err") # {}
    /\ Len(sent) = 1
    /\ inq # <<>>

\* execute returned Ok: the client closed after its Request was answered.
C39_WitnessOk ==
    /\ status = "closed"
    /\ Len(sent) = 1 /\ Len(handled) = 2
    /\ ~Failed

\* ------------------------------------------------ data types on their own
\* The third specification, SpecData: a value is drawn, written by the code's
\* write_to (or encode), and what was written is read back by the code's
\* read_from (or decode).  The connection and the transport stay as created.
InitTransport ==
    /\ key = <<>>
    /\ encrypter = NoCipher
    /\ decrypter = NoCipher
    /\ dst = <<>>
    /\ wire = <<>>
    /\ buffer = <<>>
    /\ src = <<>>
    /\ readable = FALSE
    /\ pos = 0
    /\ frames = <<>>
    /\ dstatus = "ok"
    /\ pkts = <<>>
    /\ rawn = 0
    /\ split = FALSE
    /\ InitHistory
    /\ InitServerIdle
    /\ InitConn

DataInput(kind, in) ==
    [kind |-> kind, stage |-> "input", in |-> in, bytes |-> <<>>, size |-> 0, out |-> <<>>]

\* The packets given to encode: ids of one, two and five VarInt bytes, bodies
\* that make the length prefix one and two bytes long, and a dst that holds
\* bytes already.
BigBody == [i \in 1..MaxBody |-> i % 256]
FramePackets ==
    {[id |-> i, data |-> d] : i \in {0, 1, 38, 127, 128, 300, -1},
                              d \in {<<>>, <<7>>, <<0, 1>>, <<128, 255, 0>>, BigBody}}
FrameInputs == {[packet |-> p, dst |-> d] : p \in FramePackets, d \in {<<>>, <<9, 128>>}}

\* encode(item, dst) without a cipher.
DataEncodeFrame ==
    /\ dt.kind = "Frame" /\ dt.stage = "input"
    /\ dt' = [dt EXCEPT !.stage = "written",
                        !.bytes = ClientboundEncode(NoCipher, dt.in.packet, dt.in.dst).dst]
    /\ UNCHANGED <<codecVars, connVars, peer, serverVars>>

\* decode(src) on the bytes encode added to dst.
DataDecodeFrame ==
    /\ dt.kind = "Frame" /\ dt.stage = "written"
    /\ dt' = [dt EXCEPT !.stage = "read",
                        !.out = ServerboundDecode(NoCipher, <<>>,
                                                  Drop(dt.bytes, Len(dt.in.dst)))]
    /\ UNCHANGED <<codecVars, connVars, peer, serverVars>>

\* C13: without a cipher encode adds to dst exactly VarInt(total_length),
\* VarInt(packet_id) and the body, with total_length the number of bytes of
\* VarInt(packet_id) plus the length of the body; decode on those bytes yields
\* the same id and body and leaves nothing in src.
C13_CleartextFrame ==
    (dt.kind = "Frame" /\ dt.stage # "input") =>
        LET p == dt.in.packet
            id_bytes == VarIntWriteTo(p.id)
        IN  /\ dt.bytes = dt.in.dst \o VarIntWriteTo(Len(id_bytes) + Len(p.data))
                                    \o id_bytes \o p.data
            /\ dt.stage = "read" =>
                  /\ dt.out.kind = "Some"
                  /\ dt.out.packet = p
                  /\ dt.out.src = <<>>
                  /\ dt.out.eaten = Drop(dt.bytes, Len(dt.in.dst))

C13_Witness ==
    /\ dt.kind = "Frame" /\ dt.stage = "read"
    /\ dt.in.packet = [id |-> 300, data |-> BigBody]
    /\ dt.in.dst = <<9, 128>>
    /\ Len(dt.bytes) = 2 + 2 + 2 + MaxBody
    /\ dt.out.kind = "Some"

\* i32::MIN, i32::MAX
MinInt == -2147483647 - 1
MaxInt == 2147483647
\* The 32-bit values written: the ends of every encoded length, both signs.
VarIntValues ==
    {0, 1, 2, 127, 128, 255, 300, 16383, 16384, 25565, 2097151, 2097152, 268435455,
     268435456, MaxInt, MaxInt - 1, -1, -2, -128, -129, -16384, -2097152, -268435456,
     -268435457, MinInt, MinInt + 1}
    \cup {2 ^ k : k \in 0..30} \cup {-(2 ^ k) : k \in 0..30}

\* VarInt::new(v).write_to(dst), with VarInt::new(v).size()
DataVarIntWrite ==
    /\ dt.kind = "VarInt" /\ dt.stage = "input"
    /\ dt' = [dt EXCEPT !.stage = "written",
                        !.bytes = VarIntWriteTo(dt.in),
                        !.size = VarIntSize(dt.in)]
    /\ UNCHANGED <<codecVars, connVars, peer, serverVars>>

\* VarInt::read_from on what was written.
DataVarIntRead ==
    /\ dt.kind = "VarInt" /\ dt.stage = "written"
    /\ dt' = [dt EXCEPT !.stage = "read", !.out = VarIntReadFrom(dt.bytes)]
    /\ UNCHANGED <<codecVars, connVars, peer, serverVars>>

\* C14: for a 32-bit v, write_to ends (for negative v too) with 1 to 5 bytes,
\* and read_from on them returns v and leaves none of them.
C14_VarIntRoundTrip ==
    (dt.kind = "VarInt" /\ dt.stage # "input") =>
        /\ Len(dt.bytes) \in 1..5
        /\ dt.stage = "read" =>
              /\ dt.out.kind = "Ok"
              /\ dt.out.value = dt.in
              /\ dt.out.rest = <<>>

C14_Witness ==
    /\ dt.kind = "VarInt" /\ dt.stage = "read"
    /\ dt.in = MinInt + 1
    /\ Len(dt.bytes) = 5
    /\ dt.out.value = MinInt + 1

\* The k-th 7-bit group of the two's complement of v in 32 bits, k from 0: the
\* fifth group has the four bits 28..31.
Group(v, k) == IF k < 4 THEN (v \div (2 ^ (7 * k))) % 128 ELSE (v \div (2 ^ 28)) % 16

\* The listed encodings.
VarIntVectors ==
    {<<0, <<0>>>>, <<1, <<1>>>>, <<2, <<2>>>>, <<127, <<127>>>>, <<128, <<128, 1>>>>,
     <<255, <<255, 1>>>>, <<MaxInt, <<255, 255, 255, 255, 7>>>>,
     <<-1, <<255, 255, 255, 255, 15>>>>, <<MinInt, <<128, 128, 128, 128, 8>>>>}

\* C15: write_to emits the 7-bit groups of the 32-bit two's complement of the
\* value, least significant first, as few as hold the value and at least one,
\* the high bit set on every byte but the last; the listed values are written
\* as the listed bytes, which read_from maps back to the values.
C15_VarIntEncoding ==
    (dt.kind = "VarInt" /\ dt.stage # "input") =>
        LET n == Len(dt.bytes)
        IN  /\ n >= 1
            /\ \A i \in 1..n :
                  /\ dt.bytes[i] % 128 = Group(dt.in, i - 1)
                  /\ dt.bytes[i] >= 128 <=> i < n
            /\ \A k \in n..4 : Group(dt.in, k) = 0
            /\ n > 1 => Group(dt.in, n - 1) # 0
            /\ \A vec \in VarIntVectors :
                  dt.in = vec[1] =>
                     /\ dt.bytes = vec[2]
                     /\ dt.stage = "read" => (dt.out.kind = "Ok" /\ dt.out.value = vec[1])

C15_Witness ==
    /\ dt.kind = "VarInt" /\ dt.stage = "read"
    /\ dt.in = MinInt
    /\ dt.bytes = <<128, 128, 128, 128, 8>>
    /\ dt.out.value = MinInt

\* ----------------------------------------------------------------- VarLong
\* A 64-bit word is the sequence of its bits, bit 0 first; read as an i64 it
\* is negative when bit 63 is set.
Zero64 == [i \in 1..64 |-> 0]

\* The shift done in 32 bits: what leaves the low word is dropped.
Shl64As32(value, s) ==
    [i \in 1..64 |-> IF (i - 1) - s \in 0..30 /\ i <= 32 THEN (value \div (2 ^ ((i - 1) - s))) % 2 ELSE 0]

\* (value as i64) << s, or (value as u64) << s, for a value of 0..2^31 - 1:
\* bits that leave the word are dropped.
Shl64(value, s) ==
    [i \in 1..64 |-> IF (i - 1) - s \in 0..30 THEN (value \div (2 ^ ((i - 1) - s))) % 2 ELSE 0]

\* a | b
Or64(a, b) == [i \in 1..64 |-> IF a[i] = 1 \/ b[i] = 1 THEN 1 ELSE 0]

\* value >>= 7 on a u64
Shr7(v) == [i \in 1..64 |-> IF i + 7 <= 64 THEN v[i + 7] ELSE 0]

\* (value & 0x7F) as u8
Low7(v) == v[1] + 2 * v[2] + 4 * v[3] + 8 * v[4] + 16 * v[5] + 32 * v[6] + 64 * v[7]

\* 64 - i64::leading_zeros(v)
NumBits64(v) == IF v = Zero64 THEN 0 ELSE CHOOSE n \in 1..64 : v[n] = 1 /\ \A j \in (n + 1)..64 : v[j] = 0

\* The loop of VarLong::read_from: every byte looked at is consumed.
RECURSIVE LongReadLoop(_)
LongReadLoop(st) ==
    LET b == st[1]
        n == st[2] + 1
    IN  IF b = <<>> THEN [kind |-> "OutOfBytes", value |-> 0, rest |-> b]
        ELSE IF n > 10 THEN [kind |-> "Malformed", value |-> 0, rest |-> Tail(b)]
        ELSE IF Head(b) < 128
             THEN [kind |-> "Ok", value |-> Or64(st[3], Shl64(Head(b) % 128, 7 * (n - 1))),
                   rest |-> Tail(b)]
             ELSE Eval(<<Tail(b), n, Or64(st[3], Shl64(Head(b) % 128, 7 * (n - 1)))>>,
                       LongReadLoop)

VarLongReadFrom(b) == LongReadLoop(<<b, 0, Zero64>>)

\* The loop of VarLong::write_to on the u64 value.
RECURSIVE LongWriteLoop(_)
LongWriteLoop(value) ==
    IF Shr7(value) # Zero64
    THEN <<Low7(value) + 128>> \o Eval(Shr7(value), LongWriteLoop)
    ELSE <<Low7(value)>>

VarLongWriteTo(v) == LongWriteLoop(v)

\* VarLong::size
VarLongSize(v) ==
    LET ceil == (NumBits64(v) + 6) \div 7
    IN  IF ceil > 1 THEN ceil ELSE 1

\* ------------------------------------------------------ the VarInt readers
\* The buffers read: every sequence of up to MaxBuf of these bytes, and runs
\* of nine, ten and eleven continuation bytes with and without a last byte.
BufBytes == {0, 1, 128, 255}
RECURSIVE Buffers(_)
Buffers(n) == IF n = 0 THEN {<<>>} ELSE Buffers(n - 1) \cup {b \o <<x>> : b \in {c \in Buffers(n - 1) : Len(c) = n - 1}, x \in BufBytes}
LongBuffers ==
    {[i \in 1..n |-> c] \o t : n \in 9..11, c \in {128, 255}, t \in {<<>>, <<1>>, <<0, 1>>, <<128>>}}
BufferInputs == Buffers(MaxBuf) \cup LongBuffers

\* VarInt::read_from(src)
DataReadFrom ==
    /\ dt.kind = "Buffer" /\ dt.stage = "input"
    /\ dt' = [dt EXCEPT !.stage = "read_from", !.out = VarIntReadFrom(dt.in)]
    /\ UNCHANGED <<codecVars, connVars, peer, serverVars>>

\* VarInt::careful_read_from(src)
DataCarefulReadFrom ==
    /\ dt.kind = "Buffer" /\ dt.stage = "input"
    /\ dt' = [dt EXCEPT !.stage = "careful_read_from", !.out = VarIntCarefulReadFrom(dt.in)]
    /\ UNCHANGED <<codecVars, connVars, peer, serverVars>>

\* VarLong::read_from(src)
DataLongReadFrom ==
    /\ dt.kind = "Buffer" /\ dt.stage = "input"
    /\ dt' = [dt EXCEPT !.stage = "long_read_from", !.out = VarLongReadFrom(dt.in)]
    /\ UNCHANGED <<codecVars, connVars, peer, serverVars>>

\* The first n bytes of b are there and all have the high bit set.
Continues(b, n) == Len(b) >= n /\ \A i \in 1..n : b[i] >= 128

\* C16: read_from and careful_read_from return Malformed for every buffer
\* whose first five bytes all have the high bit set, with or without a sixth
\* byte, and VarLong::read_from does so after ten such bytes.
C16_FiveContinuationsMalformed ==
    /\ (dt.stage \in {"read_from", "careful_read_from"} /\ Continues(dt.in, 5))
          => dt.out.kind = "Malformed"
    /\ (dt.stage = "long_read_from" /\ Continues(dt.in, 10))
          => dt.out.kind = "Malformed"

\* C16, as the code has it: Malformed is returned when a sixth (eleventh) byte
\* is looked at; a buffer that ends after the five (ten) bytes is OutOfBytes.
C16_MalformedNeedsNextByte ==
    /\ (dt.stage \in {"read_from", "careful_read_from"} /\ Continues(dt.in, 5))
          => dt.out.kind = (IF Len(dt.in) > 5 THEN "Malformed" ELSE "OutOfBytes")
    /\ (dt.stage = "long_read_from" /\ Continues(dt.in, 10))
          => dt.out.kind = (IF Len(dt.in) > 10 THEN "Malformed" ELSE "OutOfBytes")

C16_Witness ==
    /\ dt.stage = "careful_read_from"
    /\ dt.in = <<128, 128, 128, 128, 128>>
    /\ dt.out.kind = "OutOfBytes"

\* C17: careful_read_from leaves the buffer as it was when it returns an error
\* (OutOfBytes when the buffer ends before a byte with a clear high bit,
\* Malformed otherwise); on success it advances by the bytes of the VarInt and
\* returns the value read_from returns.
C17_CarefulReadFrame ==
    dt.stage = "careful_read_from" =>
        /\ dt.out.kind # "Ok" => dt.out.rest = dt.in
        /\ dt.out.kind = "OutOfBytes" <=> (Len(dt.in) <= 5 /\ Continues(dt.in, Len(dt.in)))
        /\ dt.out.kind = "Malformed" <=> (Len(dt.in) > 5 /\ Continues(dt.in, 5))
        /\ dt.out.kind = "Ok" =>
              \E n \in 1..5 :
                 /\ Continues(dt.in, n - 1) /\ Len(dt.in) >= n /\ dt.in[n] < 128
                 /\ dt.out.rest = Drop(dt.in, n)
                 /\ dt.out.value = VarIntReadFrom(dt.in).value
                 /\ VarIntReadFrom(dt.in).kind = "Ok"
                 /\ VarIntReadFrom(dt.in).rest = dt.out.rest

C17_Witness ==
    /\ dt.stage = "careful_read_from"
    /\ dt.in = <<255, 255, 1, 128, 0>>
    /\ dt.out = [kind |-> "Ok", value |-> 32767, rest |-> <<128, 0>>]

C17_WitnessError ==
    /\ dt.stage = "careful_read_from"
    /\ dt.in = <<128>>
    /\ dt.out.kind = "OutOfBytes" /\ dt.out.rest = <<128>>

\* ------------------------------------------------------ sizes of VarLongs
\* 2^k, and 2^k - 1 (which is -1 for k = 64), as 64-bit words.
Pow64(k) == [i \in 1..64 |-> IF i = k + 1 THEN 1 ELSE 0]
Mask64(k) == [i \in 1..64 |-> IF i <= k THEN 1 ELSE 0]
\* The 64-bit values written: the ends of every encoded length, and negative
\* values (bit 63 set) down to i64::MIN.
VarLongValues ==
    {Pow64(k) : k \in 0..63} \cup {Mask64(k) : k \in 0..64}
    \cup {Or64(Pow64(63), Mask64(k)) : k \in 0..62}
    \cup {Or64(Pow64(63), Pow64(k)) : k \in 0..62}

\* VarLong::new(v).write_to(dst), with VarLong::new(v).size()
DataVarLongWrite ==
    /\ dt.kind = "VarLong" /\ dt.stage = "input"
    /\ dt' = [dt EXCEPT !.stage = "written",
                        !.bytes = VarLongWriteTo(dt.in),
                        !.size = VarLongSize(dt.in)]
    /\ UNCHANGED <<codecVars, connVars, peer, serverVars>>

\* VarLong::read_from on what was written.
DataVarLongRead ==
    /\ dt.kind = "VarLong" /\ dt.stage = "written"
    /\ dt' = [dt EXCEPT !.stage = "read", !.out = VarLongReadFrom(dt.bytes)]
    /\ UNCHANGED <<codecVars, connVars, peer, serverVars>>

\* C20: VarInt::size(v) is the number of bytes VarInt::write_to(v) emits, 5
\* for every negative v and 1 for 0; VarLong::size(v) is the number of bytes
\* VarLong::write_to(v) emits, 10 for every negative v.
C20_SizeIsWrittenLength ==
    /\ (dt.kind = "VarInt" /\ dt.stage # "input") =>
          /\ dt.size = Len(dt.bytes)
          /\ dt.in < 0 => dt.size = 5
          /\ dt.in = 0 => dt.size = 1
    /\ (dt.kind = "VarLong" /\ dt.stage # "input") =>
          /\ dt.size = Len(dt.bytes)
          /\ dt.in[64] = 1 => dt.size = 10
          /\ dt.in = Zero64 => dt.size = 1

C20_Witness ==
    /\ dt.kind = "VarLong" /\ dt.stage = "written"
    /\ dt.in = Or64(Pow64(63), Pow64(0))
    /\ dt.size = 10 /\ Len(dt.bytes) = 10

C20_WitnessVarInt ==
    /\ dt.kind = "VarInt" /\ dt.stage = "written"
    /\ dt.in = -129
    /\ dt.size = 5 /\ Len(dt.bytes) = 5

\* VarLong::read_from gives back what VarLong::write_to wrote.
VarLongRoundTrip ==
    (dt.kind = "VarLong" /\ dt.stage = "read") =>
        dt.out = [kind |-> "Ok", value |-> dt.in, rest |-> <<>>]

\* ---------------------------------------------------------------- Position
\* The n bits of the word v from bit lo up, as a number.
RECURSIVE Field(_, _, _)
Field(v, lo, n) == IF n = 0 THEN 0 ELSE v[lo + 1] + 2 * Field(v, lo + 1, n - 1)

\* BytesMut::put_u64: big-endian
PutU64(v) == [j \in 1..8 |-> Field(v, 8 * (8 - j), 8)]

\* BytesMut::get_u64
GetU64(b) == [i \in 1..64 |-> (b[8 - ((i - 1) \div 8)] \div (2 ^ ((i - 1) % 8))) % 2]

\* <Position as DataType>::write_to
PositionWriteTo(p) ==
    LET x == IF p.x < 0 THEN p.x + 2 ^ 25 ELSE p.x
        y == IF p.y < 0 THEN p.y + 2 ^ 12 ELSE p.y
        z == IF p.z < 0 THEN p.z + 2 ^ 26 ELSE p.z
        val == Or64(Or64(Shl64(x % (2 ^ 26), 38), Shl64(z % (2 ^ 26), 12)),
                    Shl64(y % (2 ^ 12), 0))
    IN  PutU64(val)

\* <Position as DataType>::read_from
PositionReadFrom(b) ==
    IF Len(b) >= 8
    THEN LET val == GetU64(Take(b, 8))
             x == Field(val, 38, 26)
             z == Field(val, 12, 26)
             y == Field(val, 0, 12)
         IN  ReadResult("Ok",
                        [x |-> IF x >= 2 ^ 25 THEN x - 2 ^ 26 ELSE x,
                         z |-> IF z >= 2 ^ 25 THEN z - 2 ^ 26 ELSE z,
                         y |-> IF y >= 2 ^ 11 THEN y - 2 ^ 12 ELSE y],
                        Drop(b, 8))
    ELSE ReadResult("OutOfBytes", 0, b)

\* Positions with every field in its packed range, the ends included.
WideField == {-(2 ^ 25), -(2 ^ 25) + 1, -12345, -1, 0, 1, 12345, 2 ^ 25 - 1}
NarrowField == {-(2 ^ 11), -1, 0, 1, 2 ^ 11 - 1}
PositionValues == [x : WideField, z : WideField, y : NarrowField]

\* Position{x, z, y}.write_to(dst)
DataPositionWrite ==
    /\ dt.kind = "Position" /\ dt.stage = "input"
    /\ dt' = [dt EXCEPT !.stage = "written", !.bytes = PositionWriteTo(dt.in), !.size = 8]
    /\ UNCHANGED <<codecVars, connVars, peer, serverVars>>

\* Position::read_from on what was written.
DataPositionRead ==
    /\ dt.kind = "Position" /\ dt.stage = "written"
    /\ dt' = [dt EXCEPT !.stage = "read", !.out = PositionReadFrom(dt.bytes)]
    /\ UNCHANGED <<codecVars, connVars, peer, serverVars>>

\* C18: for x and z in [-2^25, 2^25) and y in [-2^11, 2^11), write_to emits 8
\* bytes whose 64-bit value has x in bits 63..38, z in bits 37..12 and y in
\* bits 11..0 (each in two's complement of its width), and read_from on them
\* returns the same x, z and y, negative fields included.
C18_PositionRoundTrip ==
    (dt.kind = "Position" /\ dt.stage # "input") =>
        /\ Len(dt.bytes) = 8
        /\ Field(GetU64(dt.bytes), 38, 26) = dt.in.x % (2 ^ 26)
        /\ Field(GetU64(dt.bytes), 12, 26) = dt.in.z % (2 ^ 26)
        /\ Field(GetU64(dt.bytes), 0, 12) = dt.in.y % (2 ^ 12)
        /\ dt.stage = "read" => dt.out = [kind |-> "Ok", value |-> dt.in, rest |-> <<>>]

\* C18, as the code has it: z and y come back for every value, x only when it
\* is not negative; a negative x comes back as x + 2^25.
C18_NegativeXLost ==
    (dt.kind = "Position" /\ dt.stage = "read") =>
        /\ dt.out.kind = "Ok" /\ dt.out.rest = <<>>
        /\ dt.out.value.z = dt.in.z
        /\ dt.out.value.y = dt.in.y
        /\ dt.out.value.x = (IF dt.in.x < 0 THEN dt.in.x + 2 ^ 25 ELSE dt.in.x)

C18_Witness ==
    /\ dt.kind = "Position" /\ dt.stage = "read"
    /\ dt.in = [x |-> -1, z |-> -1, y |-> -1]
    /\ dt.out.value = [x |-> 2 ^ 25 - 1, z |-> -1, y |-> -1]

\* --------------------------------------------------------------------- bool
\* <bool as DataType>::read_from
BoolReadFrom(b) ==
    IF Len(b) >= 1 THEN ReadResult("Ok", b[1] = 1, Tail(b))
    ELSE ReadResult("OutOfBytes", FALSE, b)

\* b.write_to(dst)
DataBoolWrite ==
    /\ dt.kind = "bool" /\ dt.stage = "input"
    /\ dt' = [dt EXCEPT !.stage = "written", !.bytes = BoolWriteTo(dt.in), !.size = 1]
    /\ UNCHANGED <<codecVars, connVars, peer, serverVars>>

\* bool::read_from on what was written.
DataBoolRead ==
    /\ dt.kind = "bool" /\ dt.stage = "written"
    /\ dt' = [dt EXCEPT !.stage = "read", !.out = BoolReadFrom(dt.bytes)]
    /\ UNCHANGED <<codecVars, connVars, peer, serverVars>>

\* C19: true is written as the byte 01 and false as 00, and read_from on the
\* written byte returns the value written.
C19_BoolRoundTrip ==
    (dt.kind = "bool" /\ dt.stage # "input") =>
        /\ dt.bytes = (IF dt.in THEN <<1>> ELSE <<0>>)
        /\ dt.stage = "read" => dt.out = [kind |-> "Ok", value |-> dt.in, rest |-> <<>>]

\* C19, as the code has it: true is written as 00 and false as 01, and
\* read_from returns the other value.
C19_BoolInverted ==
    (dt.kind = "bool" /\ dt.stage # "input") =>
        /\ dt.bytes = (IF dt.in THEN <<0>> ELSE <<1>>)
        /\ dt.stage = "read" => dt.out = [kind |-> "Ok", value |-> ~dt.in, rest |-> <<>>]

C19_Witness ==
    /\ dt.kind = "bool" /\ dt.stage = "read"
    /\ dt.in = TRUE
    /\ dt.bytes = <<0>>
    /\ dt.out.value = FALSE

\* --------------------------------------------------------- VarLong round trip
\* C21: for a 64-bit v, write_to emits 1 to 10 bytes, and read_from on them
\* returns v and leaves none of them.
C21_VarLongRoundTrip ==
    (dt.kind = "VarLong" /\ dt.stage # "input") =>
        /\ Len(dt.bytes) \in 1..10
        /\ dt.stage = "read" =>
              /\ dt.out.kind = "Ok"
              /\ dt.out.value = dt.in
              /\ dt.out.rest = <<>>

C21_Witness ==
    /\ dt.kind = "VarLong" /\ dt.stage = "read"
    /\ dt.in = Pow64(63)
    /\ dt.bytes = <<128, 128, 128, 128, 128, 128, 128, 128, 128, 1>>
    /\ dt.out.value = Pow64(63)

\* ------------------------------------------------------------------ String
\* Strings, each with the size it is read with: empty, ASCII, two- three- and
\* four-byte characters, as long as the size and one byte longer.
Texts ==
    {<<>>, <<97>>, <<104, 105>>, <<195, 169>>, <<226, 130, 172, 97>>,
     <<240, 159, 152, 128>>, Ascii(3), Ascii(16), Ascii(17), Ascii(127), Ascii(128),
     Ascii(255), Ascii(256)}
Caps == {0, 2, 16, 255}
StringInputs == [str : Texts, cap : Caps]

\* Buffers given to read_from_sized: a length prefix, then some bytes.
PrefixValues == {0, 1, 2, 3, 16, 17, 255, 256, 32767, 32768, -1, MinInt}
Bodies == {<<>>, <<97>>, <<97, 98, 99>>, <<97, 255, 99>>, Ascii(17)}
SizedInputs == {[buf |-> VarIntWriteTo(n) \o b, cap |-> c] : n \in PrefixValues, b \in Bodies, c \in Caps}

\* Packet bodies given to from_packet: a Handshake whose server_address has n
\* bytes, a Login Start whose username has n bytes, and an EncryptionResponse
\* one of whose arrays announces n bytes.
HandshakeWithAddress(n, body) == <<194, 4>> \o VarIntWriteTo(n) \o body \o <<99, 221, 2>>
PacketInputs ==
    {[type |-> "Handshake", prefix |-> n, data |-> HandshakeWithAddress(n, Ascii(n))] : n \in {0, 1, 255, 256}}
    \cup {[type |-> "Handshake", prefix |-> n, data |-> HandshakeWithAddress(n, <<>>)] : n \in {256, 300, -1}}
    \cup {[type |-> "Start", prefix |-> n, data |-> VarIntWriteTo(n) \o Ascii(n)] : n \in {0, 2, 16, 17, 255}}
    \cup {[type |-> "Start", prefix |-> n, data |-> VarIntWriteTo(n)] : n \in {17, -1}}
    \cup {[type |-> "Ping", prefix |-> 0, data |-> Take(<<255, 1, 2, 3, 4, 5, 6, 128>>, n)] : n \in 0..8}
    \cup {[type |-> "EncryptionResponse", prefix |-> n, data |-> VarIntWriteTo(n)] : n \in {129, 300, -1}}
    \cup {[type |-> "EncryptionResponse", prefix |-> n, data |-> <<1, 7>> \o VarIntWriteTo(n) \o Ascii(4)] : n \in {129, -1}}
    \cup {[type |-> "EncryptionResponse", prefix |-> 128,
           data |-> ByteArrayWriteTo(Ascii(128)) \o ByteArrayWriteTo(Ascii(128))]}

\* s.write_to(dst)
DataStringWrite ==
    /\ dt.kind = "String" /\ dt.stage = "input"
    /\ dt' = [dt EXCEPT !.stage = "written",
                        !.bytes = StringWriteTo(dt.in.str),
                        !.size = VarIntSize(Len(dt.in.str)) + Len(dt.in.str)]
    /\ UNCHANGED <<codecVars, connVars, peer, serverVars>>

\* String::read_from_sized(src, cap) on what was written.
DataStringRead ==
    /\ dt.kind = "String" /\ dt.stage = "written"
    /\ dt' = [dt EXCEPT !.stage = "read", !.out = StringReadFromSized(dt.bytes, dt.in.cap)]
    /\ UNCHANGED <<codecVars, connVars, peer, serverVars>>

\* String::read_from_sized(src, cap) on a buffer.
DataStringReadSized ==
    /\ dt.kind = "Sized" /\ dt.stage = "input"
    /\ dt' = [dt EXCEPT !.stage = "read", !.out = StringReadFromSized(dt.in.buf, dt.in.cap)]
    /\ UNCHANGED <<codecVars, connVars, peer, serverVars>>

\* Handshake::from_packet(packet)
DataHandshakeFromPacket ==
    /\ dt.kind = "Packet" /\ dt.stage = "input" /\ dt.in.type = "Handshake"
    /\ dt' = [dt EXCEPT !.stage = "parsed", !.out = HandshakeFromPacket(dt.in.data)]
    /\ UNCHANGED <<codecVars, connVars, peer, serverVars>>

\* login::Start::from_packet(packet)
DataStartFromPacket ==
    /\ dt.kind = "Packet" /\ dt.stage = "input" /\ dt.in.type = "Start"
    /\ dt' = [dt EXCEPT !.stage = "parsed", !.out = StartFromPacket(dt.in.data)]
    /\ UNCHANGED <<codecVars, connVars, peer, serverVars>>

\* login::EncryptionResponse::from_packet(packet)
DataEncryptionResponseFromPacket ==
    /\ dt.kind = "Packet" /\ dt.stage = "input" /\ dt.in.type = "EncryptionResponse"
    /\ dt' = [dt EXCEPT !.stage = "parsed", !.out = EncryptionResponseFromPacket(dt.in.data)]
    /\ UNCHANGED <<codecVars, connVars, peer, serverVars>>

\* status::Ping::from_packet(packet)
DataPingFromPacket ==
    /\ dt.kind = "Packet" /\ dt.stage = "input" /\ dt.in.type = "Ping"
    /\ dt' = [dt EXCEPT !.stage = "parsed", !.out = PingFromPacket(dt.in.data)]
    /\ UNCHANGED <<codecVars, connVars, peer, serverVars>>

\* A Ping body of 0 or 1 bytes is an error, one of 2 to 7 bytes a panic of
\* get_i64, one of 8 bytes a Ping.
PingBodyLengths ==
    (dt.kind = "Packet" /\ dt.stage = "parsed" /\ dt.in.type = "Ping") =>
        dt.out.kind = (IF Len(dt.in.data) < 2 THEN "Err"
                       ELSE IF Len(dt.in.data) < 8 THEN "Panic" ELSE "Ok")

\* C22: read_from_sized returns Malformed when the length prefix is negative
\* or greater than the size, with the bytes after the prefix left in the
\* buffer; a Handshake whose server_address prefix is over 255 and a Login
\* Start whose username prefix is over 16 are errors; and a string of at most
\* size bytes that was written is read back the same.
C22_StringCap ==
    /\ (dt.kind = "Sized" /\ dt.stage = "read") =>
          LET prefix == VarIntReadFrom(dt.in.buf)
          IN  (prefix.value > dt.in.cap \/ prefix.value < 0) =>
                 /\ dt.out.kind = "Malformed"
                 /\ dt.out.rest = prefix.rest
    /\ (dt.kind = "String" /\ dt.stage = "read") =>
          IF Len(dt.in.str) <= dt.in.cap
          THEN dt.out = [kind |-> "Ok", value |-> dt.in.str, rest |-> <<>>]
          ELSE dt.out.kind = "Malformed" /\ dt.out.rest = dt.in.str
    /\ (dt.kind = "Packet" /\ dt.stage = "parsed" /\ dt.in.type \in {"Handshake", "Start"}) =>
          LET cap == IF dt.in.type = "Handshake" THEN 255 ELSE 16
          IN  (dt.in.prefix > cap \/ dt.in.prefix < 0) => dt.out.kind = "Err"

C22_Witness ==
    /\ dt.kind = "Sized" /\ dt.stage = "read"
    /\ dt.in = [buf |-> <<17>> \o Ascii(17), cap |-> 16]
    /\ dt.out.kind = "Malformed"
    /\ dt.out.rest = Ascii(17)

C22_WitnessRoundTrip ==
    /\ dt.kind = "String" /\ dt.stage = "read"
    /\ dt.in = [str |-> <<226, 130, 172, 97>>, cap |-> 16]
    /\ dt.out.kind = "Ok" /\ dt.out.value = <<226, 130, 172, 97>>

C22_WitnessPacket ==
    /\ dt.kind = "Packet" /\ dt.stage = "parsed"
    /\ dt.in.type = "Handshake" /\ dt.in.prefix = 256 /\ Len(dt.in.data) > 256
    /\ dt.out.kind = "Err"

\* A field of its full size is accepted.
FullSizeAccepted ==
    (dt.kind = "Packet" /\ dt.stage = "parsed" /\ dt.in.prefix \in {16, 255}
       /\ (dt.in.type = "Start" => dt.in.prefix = 16))
        => dt.out.kind = "Ok"

\* ------------------------------------------------- the session authority
\* api::authenticate(..).await on one answer of the endpoint.
DataAuthenticate ==
    /\ dt.kind = "Answer" /\ dt.stage = "input"
    /\ dt' = [dt EXCEPT !.stage = "returned", !.out = Authenticate(dt.in)]
    /\ UNCHANGED <<codecVars, connVars, peer, serverVars>>

\* The answer carries a JSON body whose id is a string that parses as a UUID.
HasProfileId(a) ==
    a.sent /\ a.body.json /\ a.body.idtype = "string" /\ UuidParseStr(a.body.id).ok

\* C26: authenticate succeeds only on a 2xx status with a JSON body whose id
\* is a string that parses as a UUID; a transport failure, any other status,
\* a body that is not JSON, an id that is missing, not a string or not a UUID
\* give an error.
C26_AuthenticateOnly2xx ==
    (dt.kind = "Answer" /\ dt.stage = "returned") =>
        /\ dt.out.ok <=> (HasProfileId(dt.in) /\ dt.in.status \in 200..299)
        /\ dt.out.ok => dt.out.uuid = Uuid1

\* C26, as the code has it: the status is never looked at; the call succeeds
\* exactly when the body is JSON with an id that parses.
C26_StatusIgnored ==
    (dt.kind = "Answer" /\ dt.stage = "returned") =>
        /\ dt.out.ok <=> HasProfileId(dt.in)
        /\ dt.out.ok => dt.out.uuid = Uuid1

C26_Witness ==
    /\ dt.kind = "Answer" /\ dt.stage = "returned"
    /\ dt.in.sent /\ dt.in.status = 403
    /\ dt.in.body = [json |-> TRUE, idtype |-> "string", id |-> Hyphenated(HexOf(Uuid1))]
    /\ dt.out = [ok |-> TRUE, uuid |-> Uuid1]

\* ------------------------------------------------------------------ server
\* main: the accept loop and the tasks it spawns.  Each task owns one
\* ConnectionHandler; RSA_KEY is the one static the handlers read.
\*
\* The connections the clients open while the server runs.
MaxAccepts == 2

\* What incoming.next() yields: an error, a socket, or a socket whose peer is
\* gone by the time peer_addr() is asked for.
AcceptResults == {"Err", "Ok", "OkGone"}

\* The frames the clients of the served connections send.
ServerPackets ==
    {[id |-> 0, data |-> HandshakeBody(1)],
     [id |-> 0, data |-> HandshakeBody(2)],
     [id |-> 0, data |-> <<>>],
     [id |-> 0, data |-> <<2, 104, 105>>],
     [id |-> 1, data |-> EncryptionResponseBody(Key1, Token1)],
     [id |-> 1, data |-> EncryptionResponseBody(Key1, ShortToken)],
     [id |-> 2, data |-> <<>>]}

\* ConnectionHandler::new(socket), and the task that runs its execute().
NewHandler ==
    [current_state |-> "Handshaking", username |-> <<>>, verify_token |-> <<>>,
     key |-> <<>>, buffer |-> <<>>, pc |-> "next", status |-> "running"]

\* A handler returns Err (or panics): execute returns, the task ends and the
\* handler with its reader is dropped.
TaskEnds(h, how) == [h EXCEPT !.status = how, !.buffer = <<>>]

\* handle_packet for the handler h of one task.
HandlePacket(h, p, token) ==
    LET handler == Dispatch(h.current_state, p.id) IN
    CASE handler = "handle_handshake" ->
            LET handshake == HandshakeFromPacket(p.data) IN
            IF handshake.kind = "Ok"
            THEN [h EXCEPT !.current_state = HandshakeTarget(handshake.value)]
            ELSE TaskEnds(h, "error")
      [] handler = "handle_status_request" ->
            IF RequestFromPacket(p.data).kind = "Ok" THEN h ELSE TaskEnds(h, "error")
      [] handler = "handle_status_ping" ->
            LET ping == PingFromPacket(p.data) IN
            IF ping.kind = "Ok" THEN h
            ELSE TaskEnds(h, IF ping.kind = "Panic" THEN "panic" ELSE "error")
      [] handler = "handle_login_start" ->
            LET start == StartFromPacket(p.data) IN
            IF start.kind = "Ok"
            THEN [h EXCEPT !.username = <<start.value>>, !.verify_token = <<token>>,
                           !.current_state = "Encrypt"]
            ELSE TaskEnds(h, "error")
      [] handler = "handle_login_encryption_response" ->
            LET response == EncryptionResponseFromPacket(p.data) IN
            IF response.kind # "Ok" THEN TaskEnds(h, "error")
            ELSE LET r == CheckEncryptionResponse(response.value, h.verify_token[1]) IN
                 IF r.kind = "Ok" THEN [h EXCEPT !.key = r.key, !.pc = "auth"]
                 ELSE TaskEnds(h, "error")
      [] handler = "unimplemented" -> TaskEnds(h, "panic")
      [] OTHER -> TaskEnds(h, "error")

\* Whether the handler of p reads RSA_KEY: handle_login_start takes the public
\* key, handle_login_encryption_response decrypts with the private key.
ReadsRsaKey(h, p) ==
    \/ /\ Dispatch(h.current_state, p.id) = "handle_login_start"
       /\ StartFromPacket(p.data).kind = "Ok"
    \/ /\ Dispatch(h.current_state, p.id) = "handle_login_encryption_response"
       /\ EncryptionResponseFromPacket(p.data).kind = "Ok"

\* A handler that generates a key of its own for every read.
RsaKeyReadFresh(k) == IF k = <<>> THEN <<PublicKeyDer>> ELSE <<k[1] \o <<0>>>>

\* lazy_static: the first read generates the key, every later read finds it.
RsaKeyRead(k) == IF k = <<>> THEN <<PublicKeyDer>> ELSE k

\* Handlers that keep the verify token in one place for all connections.
TaskWritesSharedToken(cs, c, h) ==
    [d \in DOMAIN cs |->
        IF d = c THEN h
        ELSE IF cs[d].verify_token # <<>> /\ h.verify_token # <<>>
        THEN [cs[d] EXCEPT !.verify_token = h.verify_token]
        ELSE cs[d]]

\* execute(mut self): the task owns its handler, a step writes that one.
TaskWrites(cs, c, h) == [cs EXCEPT ![c] = h]

Running(c) == c \in DOMAIN conns /\ conns[c].status = "running"

\* A client connects, or the accept fails: the next result of incoming.
Incoming(result) ==
    /\ Len(listener.log) + Len(backlog) < MaxAccepts
    /\ backlog' = Append(backlog, result)
    /\ UNCHANGED <<listener, conns, rsa_key>>
    /\ UNCHANGED <<codecVars, connVars, dt, peer>>

\* An Err arm that gives up: the loop is left.
AcceptErrorArmBreaks(l) == [state |-> "stopped", log |-> Append(l.log, "Err")]

\* Err(err) => error!("Accept error: {}", err)
AcceptErrorArm(l) == [l EXCEPT !.log = Append(l.log, "Err")]

\* One turn of while let Some(result) = incoming.next().await.
Accept ==
    /\ listener.state = "listening"
    /\ backlog # <<>>
    /\ backlog' = Tail(backlog)
    /\ CASE Head(backlog) = "Err" ->
               /\ listener' = AcceptErrorArm(listener)
               /\ UNCHANGED conns
         [] Head(backlog) = "Ok" ->
               /\ listener' = [listener EXCEPT !.log = Append(listener.log, "Ok")]
               /\ conns' = Append(conns, NewHandler)
         [] Head(backlog) = "OkGone" ->
               /\ listener' = [state |-> "stopped", log |-> Append(listener.log, "OkGone")]
               /\ UNCHANGED conns
    /\ UNCHANGED rsa_key
    /\ UNCHANGED <<codecVars, connVars, dt, peer>>

\* reader.next() of task c reads a frame of its socket into its buffer.
TaskRead(c, p) ==
    /\ Running(c)
    /\ conns[c].pc = "next"
    /\ conns[c].buffer = <<>>
    /\ conns' = TaskWrites(conns, c, [conns[c] EXCEPT !.buffer = <<p>>])
    /\ UNCHANGED <<listener, backlog, rsa_key>>
    /\ UNCHANGED <<codecVars, connVars, dt, peer>>

\* reader.next() of task c yields the frame and handle_packet runs.
TaskHandle(c, token) ==
    /\ Running(c)
    /\ conns[c].pc = "next"
    /\ conns[c].buffer # <<>>
    /\ \E p \in {conns[c].buffer[1]} :
          /\ conns' = TaskWrites(conns, c,
                          HandlePacket([conns[c] EXCEPT !.buffer = <<>>], p, token))
          /\ rsa_key' = IF ReadsRsaKey(conns[c], p) THEN RsaKeyRead(rsa_key) ELSE rsa_key
    /\ UNCHANGED <<listener, backlog>>
    /\ UNCHANGED <<codecVars, connVars, dt, peer>>

\* api::authenticate of task c returns.
TaskAuthReturn(c, r) ==
    /\ Running(c)
    /\ conns[c].pc = "auth"
    /\ conns' = TaskWrites(conns, c,
                    IF AuthFails(r) THEN TaskEnds([conns[c] EXCEPT !.pc = "next"], "error")
                    ELSE [conns[c] EXCEPT !.pc = "next", !.current_state = "Play"])
    /\ UNCHANGED <<listener, backlog, rsa_key>>
    /\ UNCHANGED <<codecVars, connVars, dt, peer>>

\* reader.next() of task c returns None, or an error.
TaskReaderEnds(c, how) ==
    /\ Running(c)
    /\ conns[c].pc = "next"
    /\ conns[c].buffer = <<>>
    /\ conns' = TaskWrites(conns, c, TaskEnds(conns[c], how))
    /\ UNCHANGED <<listener, backlog, rsa_key>>
    /\ UNCHANGED <<codecVars, connVars, dt, peer>>

InitServer ==
    /\ InitTransport
    /\ dt = DataIdle

NextServer ==
    \/ \E result \in AcceptResults : Incoming(result)
    \/ Accept
    \/ \E c \in 1..MaxAccepts, p \in ServerPackets : TaskRead(c, p)
    \/ \E c \in 1..MaxAccepts, token \in Tokens : TaskHandle(c, token)
    \/ \E c \in 1..MaxAccepts, r \in AuthResults : TaskAuthReturn(c, r)
    \/ \E c \in 1..MaxAccepts, how \in {"closed", "error"} : TaskReaderEnds(c, how)

SpecServer == InitServer /\ [][NextServer]_vars

\* C28: an accept error and the end of a connection task by an error (or a
\* panic) leave the accept loop running: the Err arm keeps the listener
\* listening, a step that ends a task changes neither the listener nor what
\* is waiting to be accepted, a listening listener with a connection waiting
\* can always take it, and taking a socket spawns a task with a new handler.
\* The loop is only ever left by the unwrap of peer_addr().
TaskFails(c) ==
    /\ c \in DOMAIN conns
    /\ conns[c].status = "running"
    /\ conns'[c].status \in {"error", "panic"}
AcceptTakes(result) ==
    /\ listener.state = "listening"
    /\ backlog # <<>>
    /\ Head(backlog) = result
    /\ listener'.log = Append(listener.log, result)
C28_AcceptLoopSurvives ==
    /\ [](listener.state = "listening" /\ backlog # <<>> => ENABLED Accept)
    /\ [](listener.state = "stopped" => Last(listener.log) = "OkGone")
    /\ [][/\ AcceptTakes("Err") => listener'.state = "listening" /\ conns' = conns
          /\ (\E c \in 1..MaxAccepts : TaskFails(c)) =>
                listener' = listener /\ backlog' = backlog
          /\ AcceptTakes("Ok") =>
                /\ listener'.state = "listening"
                /\ conns' = Append(conns, NewHandler)]_vars

\* C28 witness: the first accept failed, the second was taken and its task has
\* ended with an error; the listener is still listening.
C28_Witness ==
    /\ listener = [state |-> "listening", log |-> <<"Err", "Ok">>]
    /\ Len(conns) = 1
    /\ conns[1].status = "error"

\* A task has failed and a connection is waiting: the listener can take it.
C28_WitnessPending ==
    /\ listener = [state |-> "listening", log |-> <<"Ok">>]
    /\ conns[1].status = "error"
    /\ backlog = <<"Ok">>

\* Both connections were accepted although the task of the first had panicked.
C28_WitnessAfterPanic ==
    /\ Len(conns) = 2
    /\ conns[1].status = "panic"
    /\ conns[2].current_state = "Play"

\* C29: with two or more connections interleaved, a step changes the handler
\* (phase, username, verify_token, cipher key, buffer, and where it stands) of
\* at most one connection, and the new handler is what that connection's own
\* task makes of its own handler and its own input; RSA_KEY, once generated,
\* has the same value in every later state, and it is the one server variable
\* a task step may change besides its handler.
OwnSuccessors(h) ==
    IF h.status # "running" THEN {}
    ELSE IF h.pc = "auth"
    THEN {IF AuthFails(r) THEN TaskEnds([h EXCEPT !.pc = "next"], "error")
          ELSE [h EXCEPT !.pc = "next", !.current_state = "Play"] : r \in AuthResults}
    ELSE IF h.buffer = <<>>
    THEN {[h EXCEPT !.buffer = <<p>>] : p \in ServerPackets}
         \cup {TaskEnds(h, how) : how \in {"closed", "error"}}
    ELSE {HandlePacket([h EXCEPT !.buffer = <<>>], h.buffer[1], token) : token \in Tokens}
Changed(c) == c \in DOMAIN conns /\ conns'[c] # conns[c]
C29_ConnectionsIsolated ==
    /\ [][\A c \in 1..MaxAccepts :
            Changed(c) =>
                /\ conns'[c] \in OwnSuccessors(conns[c])
                /\ \A d \in DOMAIN conns : d # c => conns'[d] = conns[d]
                /\ UNCHANGED <<listener, backlog>>]_vars
    /\ [][rsa_key # <<>> => rsa_key' = rsa_key]_vars
    /\ [](rsa_key \in {<<>>, <<PublicKeyDer>>})

\* C29 witness: two connections in flight at once: the first has logged in with
\* one verify token and its cipher key, the second waits in Encrypt with the
\* other token and a frame in its buffer; both have read RSA_KEY.
C29_Witness ==
    /\ Len(conns) = 2
    /\ conns[1].current_state = "Play"
    /\ conns[1].verify_token = <<Token1>>
    /\ conns[1].key = Key1
    /\ conns[2].current_state = "Encrypt"
    /\ conns[2].verify_token = <<Token2>>
    /\ conns[2].key = <<>>
    /\ conns[2].buffer # <<>>
    /\ rsa_key = <<PublicKeyDer>>

\* ------------------------------------------------- size() against write_to
\* <Short as DataType>::write_to and <UnsignedShort as DataType>::write_to:
\* put_i16 / put_u16, big-endian.
ShortWriteTo(v) == <<(v \div 256) % 256, v % 256>>
UnsignedShortWriteTo(v) == <<v \div 256, v % 256>>
\* A Float is kept as the i32 of its bits, a Double as the four 16-bit limbs
\* of its bits: put_f32 and put_f64 write the bits big-endian.
FloatWriteTo(bits) == IntWriteTo(bits)
DoubleWriteTo(bits) == LongWriteTo(bits)
\* <Angle as DataType>::write_to
AngleWriteTo(a) == <<a.steps>>

\* T::write_to for an element of an Array of T, and the other data types.
DataTypeWriteTo(type, v) ==
    CASE type = "Boolean" -> BoolWriteTo(v)
      [] type = "Byte" -> ByteWriteTo(v)
      [] type = "UnsignedByte" -> UnsignedByteWriteTo(v)
      [] type = "Short" -> ShortWriteTo(v)
      [] type = "UnsignedShort" -> UnsignedShortWriteTo(v)
      [] type = "Int" -> IntWriteTo(v)
      [] type = "Long" -> LongWriteTo(v)
      [] type = "Float" -> FloatWriteTo(v)
      [] type = "Double" -> DoubleWriteTo(v)
      [] type = "Position" -> PositionWriteTo(v)
      [] type = "Angle" -> AngleWriteTo(v)
      [] type = "UUID" -> UuidWriteTo(v)
      [] type = "String" -> StringWriteTo(v)
      [] type = "Identifier" -> IdentifierWriteTo(v)
      [] type = "VarInt" -> VarIntWriteTo(v)

\* <Vec<T> as SizedDataType>::write_to: the count, then every element.
RECURSIVE ElementsWriteTo(_, _)
ElementsWriteTo(of, v) ==
    IF v = <<>> THEN <<>>
    ELSE DataTypeWriteTo(of, Head(v)) \o ElementsWriteTo(of, Tail(v))
VecWriteTo(of, v) == VarIntWriteTo(Len(v)) \o ElementsWriteTo(of, v)

\* size(): the constants of the fixed-width types, String's header plus
\* bytes, and for Vec<T> the header plus self.len().
DataTypeSize(type, v) ==
    CASE type \in {"Boolean", "Byte", "UnsignedByte", "Angle"} -> 1
      [] type \in {"Short", "UnsignedShort"} -> 2
      [] type \in {"Int", "Float", "Double"} -> 4
      [] type \in {"Long", "Position"} -> 8
      [] type = "UUID" -> 16
      [] type = "String" -> VarIntSize(Len(v)) + Len(v)
      [] type = "Array" -> VarIntSize(Len(v)) + Len(v)

\* Values of every data type; an Array names the type of its elements.
Limbs == {LongZero, <<65535, 65535, 65535, 65535>>, <<16368, 0, 0, 1>>, <<32768, 0, 0, 0>>}
TypedInput(type, of, vs) ==
    \E x \in vs : dt = DataInput("Value", [type |-> type, of |-> of, v |-> x])
TypedInputs ==
    \/ TypedInput("Boolean", "", BOOLEAN)
    \/ TypedInput("Byte", "", {-128, -1, 0, 127})
    \/ TypedInput("UnsignedByte", "", {0, 1, 255})
    \/ TypedInput("Short", "", {-32768, -1, 0, 25565})
    \/ TypedInput("UnsignedShort", "", {0, 255, 25565, 65535})
    \/ TypedInput("Int", "", {MinInt, -1, 0, 1, 65536, MaxInt})
    \/ TypedInput("Long", "", Limbs)
    \/ TypedInput("Float", "", {0, 1065353216, -1082130432, MaxInt})
    \/ TypedInput("Double", "", Limbs)
    \/ TypedInput("Position", "", {p \in PositionValues : p.y = 0 /\ p.z \in {-1, 12345}})
    \/ TypedInput("Angle", "", {[steps |-> k] : k \in {0, 64, 255}})
    \/ TypedInput("UUID", "", {Uuid1, Zeros(16)})
    \/ TypedInput("String", "",
                  {<<>>, <<104, 105>>, <<226, 130, 172, 97>>, Ascii(127), Ascii(128)})
    \/ TypedInput("Array", "UnsignedByte", {<<>>, <<7>>, Key1})
    \/ TypedInput("Array", "Boolean", {<<TRUE>>, <<TRUE, FALSE, TRUE>>})
    \/ TypedInput("Array", "Long", {<<>>, <<LongZero>>, <<LongZero, <<1, 2, 3, 4>>>>})
    \/ TypedInput("Array", "VarInt", {<<0, 1>>, <<300>>, <<-1, 127>>})
    \/ TypedInput("Array", "Identifier", {<<<<>>>>, <<<<104, 105>>, <<97>>>>})

\* v.write_to(dst), with v.size()
DataValueWrite ==
    /\ dt.kind = "Value" /\ dt.stage = "input"
    /\ dt' = [dt EXCEPT !.stage = "written",
                        !.bytes = IF dt.in.type = "Array" THEN VecWriteTo(dt.in.of, dt.in.v)
                                  ELSE DataTypeWriteTo(dt.in.type, dt.in.v),
                        !.size = DataTypeSize(dt.in.type, dt.in.v)]
    /\ UNCHANGED <<codecVars, connVars, peer, serverVars>>

Written(type) == dt.kind = "Value" /\ dt.stage = "written" /\ dt.in.type = type

\* C33: for every fixed-width and array data type and every value v, size(v)
\* is the number of bytes write_to(v) appends.
C33_SizeIsWrittenLength ==
    (dt.kind = "Value" /\ dt.stage = "written") => dt.size = Len(dt.bytes)

\* C33, as the code has it: size is the written length for every type but
\* Double, whose size() is 4 for the 8 bytes put_f64 writes, and Vec<T>, whose
\* size() counts the elements: it is the written length only when every
\* element is written as one byte.
WidthOf(of, x) == Len(DataTypeWriteTo(of, x))
C33_SizeWrongForDoubleAndWideArrays ==
    (dt.kind = "Value" /\ dt.stage = "written") =>
        /\ dt.in.type \notin {"Double", "Array"} => dt.size = Len(dt.bytes)
        /\ dt.in.type = "Double" => dt.size = 4 /\ Len(dt.bytes) = 8
        /\ dt.in.type = "Array" =>
              /\ dt.size = VarIntSize(Len(dt.in.v)) + Len(dt.in.v)
              /\ (dt.size = Len(dt.bytes)) <=>
                    Len(ElementsWriteTo(dt.in.of, dt.in.v)) = Len(dt.in.v)
              /\ (\A i \in 1..Len(dt.in.v) : WidthOf(dt.in.of, dt.in.v[i]) = 1)
                    => dt.size = Len(dt.bytes)

\* C33 witness: a Double was written: 8 bytes, and its size() is 4.
C33_Witness ==
    /\ Written("Double")
    /\ dt.in.v = <<16368, 0, 0, 1>>
    /\ dt.bytes = <<63, 240, 0, 0, 0, 0, 0, 1>>
    /\ dt.size = 4

\* An Array of two Longs was written: 17 bytes, and its size() is 3.
C33_WitnessArray ==
    /\ Written("Array")
    /\ dt.in.of = "Long"
    /\ Len(dt.in.v) = 2
    /\ Len(dt.bytes) = 17
    /\ dt.size = 3

\* An Array of bytes, the one the packets use: size() is the written length.
C33_WitnessByteArray ==
    /\ Written("Array")
    /\ dt.in.of = "UnsignedByte"
    /\ dt.in.v = Key1
    /\ dt.size = 17
    /\ Len(dt.bytes) = 17

\* ------------------------------------------------------- reading an Array
\* A DataTypeError: OutOfBytes(what), Malformed(what, ..) or Context(cause,
\* what); cause holds the boxed error, if any.
DataTypeError(variant, what, cause) == [variant |-> variant, what |-> what, cause |-> cause]

\* T::read_from for the element of an Array: the result with the error it
\* returns.  An Identifier is a String read with size 32767, and String wraps
\* an error of its length header in a Context.
Element(r, what) ==
    [kind |-> r.kind, value |-> r.value, rest |-> r.rest,
     error |-> IF r.kind \in {"OutOfBytes", "Malformed"}
               THEN <<DataTypeError(r.kind, <<what>>, <<>>)>> ELSE <<>>]
ElementReadFrom(of, b) ==
    CASE of = "UnsignedByte" -> Element(UnsignedByteReadFrom(b), "Unsigned Byte")
      [] of = "Boolean" -> Element(BoolReadFrom(b), "Boolean")
      [] of = "VarInt" -> Element(VarIntReadFrom(b), "VarInt")
      [] of = "Long" -> Element(LongReadFrom(b), "Long")
      [] of = "Identifier" ->
            LET length == VarIntReadFrom(b) IN
            IF length.kind # "Ok"
            THEN [kind |-> "Context", value |-> <<>>, rest |-> length.rest,
                  error |-> <<DataTypeError("Context", <<"While reading String length header">>,
                                            <<DataTypeError(length.kind, <<"VarInt">>, <<>>)>>)>>]
            ELSE Element(StringReadFromSized(b, 32767), "String")

\* An Array reader that hands on the error of the element as it is.
ArrayElementErrorAsIs(e, vec, calls) ==
    [kind |-> e.kind, value |-> vec, rest |-> e.rest, error |-> e.error, calls |-> calls,
     at |-> <<>>]

\* The match on T::read_from's error in the loop of Vec<T>::read_from_sized.
ArrayElementError(e, vec, calls) ==
    IF e.kind = "Panic"
    THEN [kind |-> "Panic", value |-> vec, rest |-> e.rest, error |-> <<>>, calls |-> calls,
          at |-> <<>>]
    ELSE IF e.kind = "OutOfBytes"
    THEN [kind |-> "OutOfBytes", value |-> vec, rest |-> e.rest,
          error |-> <<DataTypeError("OutOfBytes", <<"Array of">> \o e.error[1].what, <<>>)>>,
          calls |-> calls, at |-> <<>>]
    ELSE [kind |-> "Context", value |-> vec, rest |-> e.rest,
          error |-> <<DataTypeError("Context", <<"Error parsing element of Array">>, e.error)>>,
          calls |-> calls, at |-> <<>>]

\* while vec.len() < array_size { match T::read_from(src) .. }; calls counts
\* the calls of T::read_from, and at is what src held when the call that
\* failed was made.
RECURSIVE ArrayReadLoop(_, _, _, _, _)
ArrayReadLoop(of, b, array_size, vec, calls) ==
    IF Len(vec) >= array_size
    THEN [kind |-> "Ok", value |-> vec, rest |-> b, error |-> <<>>, calls |-> calls,
          at |-> <<>>]
    ELSE LET e == ElementReadFrom(of, b) IN
         IF e.kind = "Ok"
         THEN ArrayReadLoop(of, e.rest, array_size, Append(vec, e.value), calls + 1)
         ELSE [ArrayElementError(e, vec, calls + 1) EXCEPT !.at = b]

\* <Vec<T> as SizedDataType>::read_from_sized: an error of the count is handed
\* on, and a negative count cast to usize is larger than any size.
VecReadFromSized(of, b, size) ==
    LET count == VarIntReadFrom(b) IN
    IF count.kind # "Ok"
    THEN [kind |-> count.kind, value |-> <<>>, rest |-> count.rest,
          error |-> <<DataTypeError(count.kind, <<"VarInt">>, <<>>)>>, calls |-> 0, at |-> <<>>]
    ELSE IF count.value < 0 \/ count.value > size
    THEN [kind |-> "Malformed", value |-> <<>>, rest |-> count.rest,
          error |-> <<DataTypeError("Malformed", <<"ByteArray">>, <<>>)>>, calls |-> 0,
          at |-> <<>>]
    ELSE ArrayReadLoop(of, count.rest, count.value, <<>>, 0)

\* Buffers given to Vec<T>::read_from_sized: a count, then bytes that hold
\* all, some or none of the elements, whole, cut short or malformed.
ArrayInput(of, counts, bodies, caps) ==
    \E n \in counts, body \in bodies, cap \in caps :
        dt = DataInput("Array", [of |-> of, count |-> n, body |-> body, cap |-> cap])
OverlongVarInt == <<128, 128, 128, 128, 128, 1>>
ArrayInputs ==
    \/ ArrayInput("UnsignedByte", {0, 2, 3, 128, 129, -1, MinInt},
                  {<<>>, <<7, 8>>, <<7, 8, 9>>}, {2, 128})
    \/ ArrayInput("Boolean", {1, 2}, {<<1>>, <<1, 0>>}, {2})
    \/ ArrayInput("VarInt", {1, 2, 3},
                  {<<1, 2>>, <<1, 128>>, <<172, 2>>, OverlongVarInt, <<1>> \o OverlongVarInt},
                  {2})
    \/ ArrayInput("Long", {1, 2},
                  {<<>>, <<0>>, <<0, 0>>, <<0, 0, 0, 0, 0, 0, 0>>, <<0, 0, 0, 0, 0, 0, 1, 44>>,
                   <<0, 0, 0, 0, 0, 0, 1, 44, 9>>, <<0, 0, 0, 0, 0, 0, 1, 44, 9, 9>>},
                  {2})
    \/ ArrayInput("Identifier", {1, 2},
                  {<<>>, <<2, 104>>, <<2, 104, 105>>, <<1, 255>>, <<1, 97, 128>>,
                   <<1, 97, 1, 98>>}, {2})

\* Vec::<T>::read_from_sized(src, cap)
DataArrayRead ==
    /\ dt.kind = "Array" /\ dt.stage = "input"
    /\ dt' = [dt EXCEPT !.stage = "read",
                        !.bytes = VarIntWriteTo(dt.in.count) \o dt.in.body,
                        !.out = VecReadFromSized(dt.in.of, VarIntWriteTo(dt.in.count) \o dt.in.body,
                                                 dt.in.cap)]
    /\ UNCHANGED <<codecVars, connVars, peer, serverVars>>

\* The element to be read at b cannot be complete: b ends before it does.
RunsOutOfBytes(of, b) ==
    CASE of \in {"UnsignedByte", "Boolean"} -> Len(b) < 1
      [] of = "Long" -> Len(b) < 8
      [] of = "VarInt" -> Len(b) < 5 /\ \A i \in 1..Len(b) : b[i] >= 128
      [] of = "Identifier" ->
            LET length == VarIntReadFrom(b) IN
            \/ Len(b) < 5 /\ \A i \in 1..Len(b) : b[i] >= 128
            \/ length.kind = "Ok" /\ length.value \in 0..32767 /\ Len(length.rest) < length.value
\* What T's OutOfBytes names.
NameOf(of) ==
    CASE of = "UnsignedByte" -> "Unsigned Byte"
      [] of = "Identifier" -> "String"
      [] OTHER -> of
ArrayWasRead == dt.kind = "Array" /\ dt.stage = "read"
CountRefused == dt.in.count < 0 \/ dt.in.count > dt.in.cap
ElementFailed == ArrayWasRead /\ ~CountRefused /\ dt.out.kind # "Ok"
ArrayOutOfBytes(of) == <<DataTypeError("OutOfBytes", <<"Array of", NameOf(of)>>, <<>>)>>
CountThenNothingRead ==
    /\ dt.out.kind = "Malformed"
    /\ dt.out.calls = 0
    /\ dt.out.value = <<>>
    /\ dt.out.rest = dt.in.body
ElementErrorInContext ==
    /\ dt.out.kind = "Context"
    /\ dt.out.error[1].variant = "Context"
    /\ dt.out.error[1].what = <<"Error parsing element of Array">>
    /\ Len(dt.out.error[1].cause) = 1
OversizeResponseRefused ==
    (dt.kind = "Packet" /\ dt.stage = "parsed" /\ dt.in.type = "EncryptionResponse") =>
        ((dt.in.prefix > 128 \/ dt.in.prefix < 0) <=> dt.out.kind = "Err")

\* C34: an Array read with maximum size m is Malformed, with no element read,
\* when its count is over m or negative; an element that runs out of bytes
\* gives OutOfBytes("Array of ..."), a malformed element gives Context(cause,
\* "Error parsing element of Array"); an EncryptionResponse one of whose
\* counts is over 128 is an error.
C34_ArrayErrors ==
    /\ (ArrayWasRead /\ CountRefused) => CountThenNothingRead
    /\ ElementFailed =>
          IF RunsOutOfBytes(dt.in.of, dt.out.at)
          THEN dt.out.kind = "OutOfBytes" /\ dt.out.error = ArrayOutOfBytes(dt.in.of)
          ELSE ElementErrorInContext /\ dt.out.error[1].cause[1].variant = "Malformed"
    /\ OversizeResponseRefused

\* C34, as the code has it: the count and the malformed element are as
\* claimed, but an element that runs out of bytes is OutOfBytes("Array of
\* ...") only when T::read_from itself returns OutOfBytes: a Long with 2 to 7
\* bytes left panics in get_i64, and an Identifier whose length header is cut
\* short comes back as Context(Context(OutOfBytes("VarInt"), "While reading
\* String length header"), "Error parsing element of Array").
C34_ArrayErrorsOfElementReader ==
    /\ (ArrayWasRead /\ CountRefused) => CountThenNothingRead
    /\ ElementFailed =>
          IF RunsOutOfBytes(dt.in.of, dt.out.at)
          THEN CASE dt.in.of = "Long" /\ Len(dt.out.at) >= 2 -> dt.out.kind = "Panic"
                 [] dt.in.of = "Identifier" /\ VarIntReadFrom(dt.out.at).kind = "OutOfBytes" ->
                       /\ ElementErrorInContext
                       /\ dt.out.error[1].cause[1] =
                             DataTypeError("Context", <<"While reading String length header">>,
                                           <<DataTypeError("OutOfBytes", <<"VarInt">>, <<>>)>>)
                 [] OTHER ->
                       dt.out.kind = "OutOfBytes" /\ dt.out.error = ArrayOutOfBytes(dt.in.of)
          ELSE ElementErrorInContext /\ dt.out.error[1].cause[1].variant = "Malformed"
    /\ OversizeResponseRefused

\* C34 witness: an Array of Long announced one element and three bytes
\* follow: the element runs out of bytes and the read panics.
C34_Witness ==
    /\ ArrayWasRead
    /\ dt.in = [of |-> "Long", count |-> 1, body |-> <<0, 0>>, cap |-> 2]
    /\ dt.out.kind = "Panic"
    /\ dt.out.calls = 1

\* The cases that are as claimed: the count over the size, with no element
\* read; a byte array that ends early; a malformed VarInt element.
C34_WitnessCount ==
    /\ ArrayWasRead
    /\ dt.in = [of |-> "UnsignedByte", count |-> 129, body |-> <<7, 8, 9>>, cap |-> 128]
    /\ dt.out.kind = "Malformed" /\ dt.out.calls = 0
C34_WitnessOutOfBytes ==
    /\ ArrayWasRead
    /\ dt.in = [of |-> "UnsignedByte", count |-> 3, body |-> <<7, 8>>, cap |-> 128]
    /\ dt.out.error = <<DataTypeError("OutOfBytes", <<"Array of", "Unsigned Byte">>, <<>>)>>
    /\ dt.out.calls = 3
C34_WitnessMalformed ==
    /\ ArrayWasRead
    /\ dt.in = [of |-> "VarInt", count |-> 2, body |-> <<1>> \o OverlongVarInt, cap |-> 2]
    /\ dt.out.error = <<DataTypeError("Context", <<"Error parsing element of Array">>,
                                      <<DataTypeError("Malformed", <<"VarInt">>, <<>>)>>)>>
C34_WitnessIdentifier ==
    /\ ArrayWasRead
    /\ dt.in = [of |-> "Identifier", count |-> 1, body |-> <<>>, cap |-> 2]
    /\ dt.out.kind = "Context"
C34_WitnessResponse ==
    /\ dt.kind = "Packet" /\ dt.stage = "parsed" /\ dt.in.type = "EncryptionResponse"
    /\ dt.in.prefix = 129 /\ Len(dt.in.data) > 2
    /\ dt.out.kind = "Err"

\* The reader of the packets' byte arrays and the generic reader agree on
\* every Array of UnsignedByte.
ByteArrayAgrees ==
    (ArrayWasRead /\ dt.in.of = "UnsignedByte") =>
        LET r == ByteArrayReadFromSized(dt.bytes, dt.in.cap) IN
        /\ r.kind = dt.out.kind
        /\ r.kind = "Ok" => r.value = dt.out.value /\ r.rest = dt.out.rest

\* ------------------------------------------------ encode and what dst held
\* The packets given to an encoder whose cipher is enabled, with a dst that is
\* empty, shorter than the frame and longer than the frame.
SealedInputs ==
    {[packet |-> [id |-> i, data |-> d], dst |-> b] :
        i \in {0, 300}, d \in {<<>>, <<0, 1>>, Ascii(12)}, b \in {<<>>, <<9, 128>>, Ascii(30)}}

\* encode(item, dst) with the cipher enabled with Key1.
DataEncodeSealed ==
    /\ dt.kind = "Sealed" /\ dt.stage = "input"
    /\ dt' = [dt EXCEPT !.stage = "written",
                        !.bytes = ClientboundEncode(CrypterNew(Key1), dt.in.packet, dt.in.dst).dst]
    /\ UNCHANGED <<codecVars, connVars, peer, serverVars>>

Encoded == dt.kind \in {"Frame", "Sealed"} /\ dt.stage = "written"
TotalLength == VarIntSize(dt.in.packet.id) + Len(dt.in.packet.data)
FrameLength == VarIntSize(TotalLength) + TotalLength

\* C35: encode only appends: what dst held before the call is unchanged and
\* precedes the new frame, and dst grows by size(VarInt(total_length)) +
\* total_length bytes, without and with encryption.
C35_EncodeOnlyAppends ==
    Encoded =>
        /\ Len(dt.bytes) = Len(dt.in.dst) + FrameLength
        /\ Take(dt.bytes, Len(dt.in.dst)) = dt.in.dst

\* C35, as the code has it: without a cipher encode appends; with the cipher
\* enabled dst is resized to the length of the frame and the encrypted frame
\* is written from its first byte on, so what dst held is overwritten (and cut
\* off when it was longer than the frame).
C35_SealedFrameReplacesDst ==
    Encoded =>
        IF dt.kind = "Frame"
        THEN /\ Len(dt.bytes) = Len(dt.in.dst) + FrameLength
             /\ Take(dt.bytes, Len(dt.in.dst)) = dt.in.dst
        ELSE /\ Len(dt.bytes) = FrameLength
             /\ dt.bytes = CfbEncrypt(CrypterNew(Key1), Frame(dt.in.packet)).out

\* C35 witness: dst held 09 80 when the empty packet 0 was encoded with the
\* cipher enabled: dst is the two encrypted bytes of the frame, 09 80 is gone.
C35_Witness ==
    /\ dt.kind = "Sealed" /\ dt.stage = "written"
    /\ dt.in = [packet |-> [id |-> 0, data |-> <<>>], dst |-> <<9, 128>>]
    /\ Len(dt.bytes) = 2
    /\ dt.bytes # <<9, 128>>

\* dst held thirty bytes, more than the frame of fifteen: fifteen are left.
C35_WitnessCutOff ==
    /\ dt.kind = "Sealed" /\ dt.stage = "written"
    /\ dt.in = [packet |-> [id |-> 300, data |-> Ascii(12)], dst |-> Ascii(30)]
    /\ Len(dt.bytes) = 15

\* Without a cipher the frame went after what dst held.
C35_WitnessCleartext ==
    /\ dt.kind = "Frame" /\ dt.stage = "written"
    /\ dt.in = [packet |-> [id |-> 0, data |-> <<>>], dst |-> <<9, 128>>]
    /\ dt.bytes = <<9, 128, 1, 0>>

\* With the cipher enabled and dst empty, as it is after every flush, the
\* encrypted frame is all of dst.
C35_WitnessSealedEmpty ==
    /\ dt.kind = "Sealed" /\ dt.stage = "written"
    /\ dt.in.dst = <<>>
    /\ dt.in.packet = [id |-> 300, data |-> Ascii(12)]
    /\ Len(dt.bytes) = 15

\* --------------------------------------------- decode and the length prefix
\* What a client may put on the wire in place of a frame: prefixes of zero in
\* one and two bytes, negative prefixes, the largest prefix, and whole and
\* partial frames; key is the key of the ciphers, or <<>> without encryption.
WireBytes ==
    {<<>>, <<0>>, <<0, 0>>, <<0, 1, 0>>, <<128, 0>>, <<128, 0, 5>>,
     <<255, 255, 255, 255, 15>>, <<255, 255, 255, 255, 15, 0, 0>>,
     <<128, 128, 128, 128, 8>>, <<128, 128, 128, 128, 8, 1>>,
     <<255, 255, 255, 255, 7>>, <<1, 0>>, <<2, 0>>, <<2, 1, 7, 9>>, <<128>>}
WireInputs == {[key |-> k, bytes |-> b] : k \in {<<>>, Key1}, b \in WireBytes}

\* The client writes the bytes, through its cipher when encryption is on.
DataWireWrite ==
    /\ dt.kind = "Wire" /\ dt.stage = "input"
    /\ dt' = [dt EXCEPT !.stage = "written",
                        !.bytes = IF dt.in.key = <<>> THEN dt.in.bytes
                                  ELSE CfbEncrypt(CrypterNew(dt.in.key), dt.in.bytes).out]
    /\ UNCHANGED <<codecVars, connVars, peer, serverVars>>

\* decode(src) on what the client wrote.
DataWireDecode ==
    /\ dt.kind = "Wire" /\ dt.stage = "written"
    /\ dt' = [dt EXCEPT !.stage = "read",
                        !.out = ServerboundDecode(
                                    CipherFor(dt.in.key, DecoderEnableEncryption),
                                    <<>>, dt.bytes)]
    /\ UNCHANGED <<codecVars, connVars, peer, serverVars>>

\* decode was given bytes whose length prefix is whole and decodes to v.
PrefixRead(v) ==
    /\ dt.kind = "Wire" /\ dt.stage = "read"
    /\ VarIntCarefulReadFrom(dt.in.bytes).kind = "Ok"
    /\ VarIntCarefulReadFrom(dt.in.bytes).value = v
BadLengths == {0, -1, MinInt}

\* C38: a length prefix of zero or of a negative 32-bit value makes decode
\* return an error: no packet, no wait for more bytes, no reservation made
\* from a negative length.
C38_BadLengthIsError ==
    \A v \in BadLengths : PrefixRead(v) => dt.out.kind = "Err"

\* C38, as the code has it: a prefix of zero is an error (the packet id is read
\* from no bytes) and only the prefix is consumed; a negative prefix, cast to
\* usize, is larger than any buffer, so decode takes the branch of the
\* incomplete frame and calls src.reserve with it, which panics.
C38_NegativeLengthReserves ==
    /\ PrefixRead(0) =>
          /\ dt.out.kind = "Err"
          /\ dt.out.eaten = Take(dt.in.bytes, Len(dt.out.eaten))
          /\ VarIntCarefulReadFrom(dt.out.eaten).rest = <<>>
    /\ \A v \in BadLengths \ {0} : PrefixRead(v) => dt.out.kind = "Panic"

\* C38 witness: decode was given FF FF FF FF 0F, the prefix -1, without
\* encryption, and did not return an error.
C38_Witness ==
    /\ PrefixRead(-1)
    /\ dt.in = [key |-> <<>>, bytes |-> <<255, 255, 255, 255, 15>>]
    /\ dt.out.kind = "Panic"

\* The same with encryption enabled and bytes after the prefix.
C38_WitnessEncrypted ==
    /\ PrefixRead(MinInt)
    /\ dt.in = [key |-> Key1, bytes |-> <<128, 128, 128, 128, 8, 1>>]
    /\ dt.bytes # dt.in.bytes
    /\ dt.out.kind = "Panic"

\* A prefix of zero written in two bytes is an error.
C38_WitnessZero ==
    /\ PrefixRead(0)
    /\ dt.in.bytes = <<128, 0, 5>>
    /\ dt.out.kind = "Err"
    /\ dt.out.eaten = <<128, 0>>

\* The harness also decodes a whole frame and waits for an incomplete one.
C38_WitnessSome ==
    /\ PrefixRead(2)
    /\ dt.in.key = Key1
    /\ dt.out.kind = "Some"
    /\ dt.out.packet = [id |-> 1, data |-> <<7>>]

C38_WitnessNone ==
    /\ PrefixRead(2)
    /\ dt.in.bytes = <<2, 0>>
    /\ dt.out.kind = "None"

\* ----------------------------------------------------------------- SpecData
\* The data types and the cleartext frame, each applied to one input.
InitData ==
    /\ InitTransport
    /\ \/ \E f \in FrameInputs : dt = DataInput("Frame", f)
       \/ \E v \in VarIntValues : dt = DataInput("VarInt", v)
       \/ \E b \in BufferInputs : dt = DataInput("Buffer", b)
       \/ \E v \in VarLongValues : dt = DataInput("VarLong", v)
       \/ \E p \in PositionValues : dt = DataInput("Position", p)
       \/ \E v \in BOOLEAN : dt = DataInput("bool", v)
       \/ \E t \in StringInputs : dt = DataInput("String", t)
       \/ \E t \in SizedInputs : dt = DataInput("Sized", t)
       \/ \E p \in PacketInputs : dt = DataInput("Packet", p)
       \/ \E a \in AuthorityAnswers : dt = DataInput("Answer", a)
       \/ TypedInputs
       \/ ArrayInputs
       \/ \E f \in SealedInputs : dt = DataInput("Sealed", f)
       \/ \E w \in WireInputs : dt = DataInput("Wire", w)

NextData ==
    \/ DataEncodeFrame
    \/ DataDecodeFrame
    \/ DataVarIntWrite
    \/ DataVarIntRead
    \/ DataReadFrom
    \/ DataCarefulReadFrom
    \/ DataLongReadFrom
    \/ DataVarLongWrite
    \/ DataVarLongRead
    \/ DataPositionWrite
    \/ DataPositionRead
    \/ DataBoolWrite
    \/ DataBoolRead
    \/ DataStringWrite
    \/ DataStringRead
    \/ DataStringReadSized
    \/ DataHandshakeFromPacket
    \/ DataStartFromPacket
    \/ DataPingFromPacket
    \/ DataEncryptionResponseFromPacket
    \/ DataAuthenticate
    \/ DataValueWrite
    \/ DataArrayRead
    \/ DataEncodeSealed
    \/ DataWireWrite
    \/ DataWireDecode

SpecData == InitData /\ [][NextData]_vars

====
